---- MODULE Spec2Model ----
(***************************************************************************)
(* A model of the task tracker of this repository: the Convex backend      *)
(* (convex/tasks.ts: the tasks, taskHistory and users tables, the          *)
(* mutations that write them and the queries that read them) and the web   *)
(* client's filter state (src/App.tsx).                                    *)
(*                                                                         *)
(* Optional fields (v.optional in the schema, undefined in TypeScript) are *)
(* sequences of length at most one: None is <<>>, Some(v) is <<v>>.        *)
(* Strings that the code inspects (titles, descriptions, search strings)   *)
(* are sequences of one-character strings.                                 *)
(***************************************************************************)
EXTENDS Integers, Sequences, FiniteSets, TLC

VARIABLES
    tasks,        \* the "tasks" table: documents in creation order
    taskHistory,  \* the "taskHistory" table: documents in creation order
    users,        \* the "users" table: documents in creation order
    now,          \* the value Date.now() returns
    result,       \* outcome of the last call: [op, error, value]
    showCompleted,     \* web client: the "Completed" status toggle
    showIncomplete,    \* web client: the "Incomplete" status toggle
    durationFilter,    \* web client: "all", "quick" or "long"
    importanceFilter,  \* web client: "all", "important" or "not-important"
    sort,              \* web client: the sort order selected
    visibleCount,      \* web client: how many tasks of the list are rendered
    mobileFilter,          \* mobile TaskList: the filter prop of the tab's screen
    mobileDurationFilter,  \* mobile screen: "all", "quick" or "long"
    mobileSort,            \* mobile screen: the sort order selected
    mobileVisibleCount,    \* mobile TaskList: how many tasks are rendered
    selectedUsers,       \* web client: the ids of the users selected
    statsSortColumn,     \* web client: the column the statistics are sorted by
    statsSortDirection,  \* web client: "asc" or "desc"
    calls,               \* the toggle invocations in progress, by slot
    togglingTasks,         \* web client: ids whose completion toggle is in flight
    togglingImportance,    \* web client: ids whose importance toggle is in flight
    togglingTaskId,        \* mobile TaskList: the task of the toggling marker
    togglingType,          \* mobile TaskList: the kind of the toggling marker
    requests,              \* toggle calls of the clients that have not settled
    searchInput,           \* web client: searchQuery, the text of the search input
    debouncedSearchQuery,  \* web client: the search string the list query gets
    timers,                \* web client: setTimeout callbacks neither run nor cleared
    sinceInput             \* ms since the search input last changed (saturating)

dbVars == <<tasks, taskHistory, users, now, result, calls>>

webVars == <<showCompleted, showIncomplete, durationFilter, importanceFilter,
             sort, visibleCount>>

mobileVars == <<mobileFilter, mobileDurationFilter, mobileSort, mobileVisibleCount>>

statsVars == <<selectedUsers, statsSortColumn, statsSortDirection>>

clientVars == <<togglingTasks, togglingImportance, togglingTaskId, togglingType,
                requests, searchInput, debouncedSearchQuery, timers, sinceInput>>

vars == <<tasks, taskHistory, users, now, result, showCompleted, showIncomplete,
          durationFilter, importanceFilter, sort, visibleCount,
          mobileFilter, mobileDurationFilter, mobileSort, mobileVisibleCount,
          selectedUsers, statsSortColumn, statsSortDirection, calls,
          togglingTasks, togglingImportance, togglingTaskId, togglingType,
          requests, searchInput, debouncedSearchQuery, timers, sinceInput>>

----------------------------------------------------------------------------
(* Bounds of the model *)

\* Date.now() ranges over 2..MaxTime; the seeded documents were created at time 1.
MaxTime == 3

\* The taskHistory table holds at most MaxHistory documents.
MaxHistory == 2

\* Bulk mutations take at most MaxIds ids.
MaxIds == 2

\* A search string has at most MaxQuery characters.
MaxQuery == 3

\* The clock of the web client is read every TimerStep ms.
TimerStep == 200

\* The stores the clients' lists are computed over hold at most MaxListTasks tasks.
MaxListTasks == 3

\* The largest store of the paginated lists fills MaxPages web pages, plus one task.
MaxPages == 1

\* The toggle invocations that may be in progress at once.
MaxCalls == 2

----------------------------------------------------------------------------
(* Values *)

None == <<>>

Some(v) == <<v>>

\* JavaScript truthiness of an optional boolean: undefined and false are falsy.
Truthy(opt) == opt = Some(TRUE)

\* JavaScript truthiness of an optional number: undefined and 0 are falsy.
TruthyNum(opt) == opt # None /\ opt # Some(0)

\* opt ?? d
OrElse(opt, d) == IF opt = None THEN d ELSE opt[1]

\* The elements of an array.
Range(list) == {list[i] : i \in DOMAIN list}

\* Ids of the tasks table. An id may refer to no document (the document was
\* deleted, or only the first task was ever seeded).
TaskIds == {"t1", "t2"}

UserIds == {"u1", "u2"}

\* Sequences over S of length at most n.
SeqsUpTo(S, n) == UNION {[1..k -> S] : k \in 0..n}

----------------------------------------------------------------------------
(* The database: ctx.db of a Convex handler *)

\* The handler's view of the database and of the clock.
Db == [tasks |-> tasks, taskHistory |-> taskHistory, users |-> users, now |-> now]

\* ctx.db.get(id): None (null) when the table holds no such document.
DbGet(table, id) == SelectSeq(table, LAMBDA d : d._id = id)

\* ctx.db.patch(id, fields): the fields given replace those of the document
\* with that id; its other fields stay.
DbPatch(table, id, fields) ==
    [i \in DOMAIN table |->
        IF table[i]._id = id
        THEN [f \in DOMAIN table[i] |->
                 IF f \in DOMAIN fields THEN fields[f] ELSE table[i][f]]
        ELSE table[i]]

\* The by_task index read without its equality on taskId: the whole table.
HistoryByTask_WholeTable(history, id) == history

\* ctx.db.query("taskHistory").withIndex("by_task", q => q.eq("taskId", id)).collect()
HistoryByTask(history, id) == SelectSeq(history, LAMBDA h : h.taskId = id)

\* A handler that returns: the tables as written, and the value returned.
Return(op, db, value) ==
    [tasks |-> db.tasks, taskHistory |-> db.taskHistory, users |-> db.users,
     result |-> [op |-> op, error |-> None, value |-> Some(value)]]

\* A handler that throws: the transaction writes nothing; the call rejects.
Throw(op, db, message) ==
    [tasks |-> db.tasks, taskHistory |-> db.taskHistory, users |-> db.users,
     result |-> [op |-> op, error |-> Some(message), value |-> None]]

\* A taskHistory document.
HistoryEntry(id, changeType, changedTo, changedAt) ==
    [taskId |-> id, changeType |-> changeType, changedTo |-> changedTo,
     changedAt |-> changedAt]

----------------------------------------------------------------------------
(* Mutations of convex/tasks.ts, as functions of the database *)

\* toggleCompleted with a patch that leaves updatedAt alone.
toggleCompleted_StaleUpdatedAt(db, id) ==
    LET task == DbGet(db.tasks, id) IN
    IF task = None THEN Throw("toggleCompleted", db, "Task not found")
    ELSE
        LET newStatus == ~task[1].isCompleted
            patched == DbPatch(db.tasks, id,
                           [isCompleted |-> newStatus])
            inserted == Append(db.taskHistory,
                           HistoryEntry(id, Some("completion"), newStatus, db.now))
            after == [db EXCEPT !.tasks = patched, !.taskHistory = inserted]
        IN  Return("toggleCompleted", after, DbGet(after.tasks, id)[1])

\* toggleCompleted that marks the task completed instead of negating the flag.
toggleCompleted_AlwaysCompletes(db, id) ==
    LET task == DbGet(db.tasks, id) IN
    IF task = None THEN Throw("toggleCompleted", db, "Task not found")
    ELSE
        LET newStatus == TRUE
            patched == DbPatch(db.tasks, id,
                           [isCompleted |-> newStatus, updatedAt |-> Some(db.now)])
            inserted == Append(db.taskHistory,
                           HistoryEntry(id, Some("completion"), newStatus, db.now))
            after == [db EXCEPT !.tasks = patched, !.taskHistory = inserted]
        IN  Return("toggleCompleted", after, DbGet(after.tasks, id)[1])

toggleCompleted(db, id) ==
    LET task == DbGet(db.tasks, id) IN
    IF task = None THEN Throw("toggleCompleted", db, "Task not found")
    ELSE
        LET newStatus == ~task[1].isCompleted
            patched == DbPatch(db.tasks, id,
                           [isCompleted |-> newStatus, updatedAt |-> Some(db.now)])
            inserted == Append(db.taskHistory,
                           HistoryEntry(id, Some("completion"), newStatus, db.now))
            after == [db EXCEPT !.tasks = patched, !.taskHistory = inserted]
        IN  Return("toggleCompleted", after, DbGet(after.tasks, id)[1])

\* toggleImportant that returns null for a missing task instead of throwing.
toggleImportant_SilentWhenMissing(db, id) ==
    LET task == DbGet(db.tasks, id) IN
    IF task = None THEN Return("toggleImportant", db, None)
    ELSE
        LET newStatus == ~Truthy(task[1].isImportant)
            patched == DbPatch(db.tasks, id,
                           [isImportant |-> Some(newStatus), updatedAt |-> Some(db.now)])
            inserted == Append(db.taskHistory,
                           HistoryEntry(id, Some("importance"), newStatus, db.now))
            after == [db EXCEPT !.tasks = patched, !.taskHistory = inserted]
        IN  Return("toggleImportant", after, DbGet(after.tasks, id)[1])

\* toggleImportant computing the new flag as "the flag is false": an absent
\* flag stays off.
toggleImportant_AbsentStaysOff(db, id) ==
    LET task == DbGet(db.tasks, id) IN
    IF task = None THEN Throw("toggleImportant", db, "Task not found")
    ELSE
        LET newStatus == task[1].isImportant = Some(FALSE)
            patched == DbPatch(db.tasks, id,
                           [isImportant |-> Some(newStatus), updatedAt |-> Some(db.now)])
            inserted == Append(db.taskHistory,
                           HistoryEntry(id, Some("importance"), newStatus, db.now))
            after == [db EXCEPT !.tasks = patched, !.taskHistory = inserted]
        IN  Return("toggleImportant", after, DbGet(after.tasks, id)[1])

toggleImportant(db, id) ==
    LET task == DbGet(db.tasks, id) IN
    IF task = None THEN Throw("toggleImportant", db, "Task not found")
    ELSE
        LET newStatus == ~Truthy(task[1].isImportant)
            patched == DbPatch(db.tasks, id,
                           [isImportant |-> Some(newStatus), updatedAt |-> Some(db.now)])
            inserted == Append(db.taskHistory,
                           HistoryEntry(id, Some("importance"), newStatus, db.now))
            after == [db EXCEPT !.tasks = patched, !.taskHistory = inserted]
        IN  Return("toggleImportant", after, DbGet(after.tasks, id)[1])

\* The loop body of toggleAll keeping one history document per task: a task
\* that has one gets it overwritten instead of a new one appended.
toggleAllStep_Overwrites(db, id) ==
    LET task == DbGet(db.tasks, id) IN
    IF task # None
    THEN LET newStatus == ~task[1].isCompleted
             entry == HistoryEntry(id, None, newStatus, db.now)
             has == \E i \in DOMAIN db.taskHistory : db.taskHistory[i].taskId = id
         IN
         [db EXCEPT !.tasks = DbPatch(db.tasks, id,
                           [isCompleted |-> newStatus, updatedAt |-> Some(db.now)]),
                    !.taskHistory =
                        IF has
                        THEN [i \in DOMAIN db.taskHistory |->
                                 IF db.taskHistory[i].taskId = id THEN entry
                                 ELSE db.taskHistory[i]]
                        ELSE Append(db.taskHistory, entry)]
    ELSE db

\* The loop body of toggleAll recording the value the task had.
toggleAllStep_RecordsOldValue(db, id) ==
    LET task == DbGet(db.tasks, id) IN
    IF task # None
    THEN LET newStatus == ~task[1].isCompleted IN
         [db EXCEPT !.tasks = DbPatch(db.tasks, id,
                           [isCompleted |-> newStatus, updatedAt |-> Some(db.now)]),
                    !.taskHistory = Append(db.taskHistory,
                                  HistoryEntry(id, None, task[1].isCompleted, db.now))]
    ELSE db

\* One iteration of toggleAll's loop.
toggleAllStep(db, id) ==
    LET task == DbGet(db.tasks, id) IN
    IF task # None
    THEN LET newStatus == ~task[1].isCompleted IN
         [db EXCEPT !.tasks = DbPatch(db.tasks, id,
                           [isCompleted |-> newStatus, updatedAt |-> Some(db.now)]),
                    !.taskHistory = Append(db.taskHistory,
                                  HistoryEntry(id, None, newStatus, db.now))]
    ELSE db

\* The loop of toggleAll passing over an id it has met before in the list.
RECURSIVE toggleAllLoop_SkipsRepeats(_, _, _)
toggleAllLoop_SkipsRepeats(db, ids, i) ==
    IF i > Len(ids) THEN db
    ELSE toggleAllLoop_SkipsRepeats(
             IF \E j \in 1..(i - 1) : ids[j] = ids[i] THEN db
             ELSE toggleAllStep(db, ids[i]), ids, i + 1)

RECURSIVE toggleAllLoop(_, _, _)
toggleAllLoop(db, ids, i) ==
    IF i > Len(ids) THEN db
    ELSE toggleAllLoop(toggleAllStep(db, ids[i]), ids, i + 1)

toggleAll(db, ids) == Return("toggleAll", toggleAllLoop(db, ids, 1), TRUE)

\* The loop body of setAllCompleted without its test that the flag differs.
setAllCompletedStep_NoSkip(db, id, value) ==
    LET task == DbGet(db.tasks, id) IN
    IF task # None
    THEN [db EXCEPT !.tasks = DbPatch(db.tasks, id,
                           [isCompleted |-> value, updatedAt |-> Some(db.now)]),
                    !.taskHistory = Append(db.taskHistory,
                                  HistoryEntry(id, None, value, db.now))]
    ELSE db

\* One iteration of setAllCompleted's loop.
setAllCompletedStep(db, id, value) ==
    LET task == DbGet(db.tasks, id) IN
    IF task # None /\ task[1].isCompleted # value
    THEN [db EXCEPT !.tasks = DbPatch(db.tasks, id,
                           [isCompleted |-> value, updatedAt |-> Some(db.now)]),
                    !.taskHistory = Append(db.taskHistory,
                                  HistoryEntry(id, None, value, db.now))]
    ELSE db

RECURSIVE setAllCompletedLoop(_, _, _, _)
setAllCompletedLoop(db, ids, value, i) ==
    IF i > Len(ids) THEN db
    ELSE setAllCompletedLoop(setAllCompletedStep(db, ids[i], value), ids, value, i + 1)

setAllCompleted(db, ids, value) == Return("setAllCompleted", setAllCompletedLoop(db, ids, value, 1), TRUE)

resetAllTasksStatus(db) ==
    LET patched == [i \in DOMAIN db.tasks |->
                       [db.tasks[i] EXCEPT !.isCompleted = FALSE,
                                           !.isImportant = Some(FALSE)]]
    IN  Return("resetAllTasksStatus", [db EXCEPT !.tasks = patched],
               [updated |-> Len(db.tasks), total |-> Len(db.tasks)])

\* truncateAllTables without its first loop.
truncateAllTables_KeepsHistory(db) ==
    Return("truncateAllTables", [db EXCEPT !.tasks = <<>>, !.users = <<>>],
           [deletedHistory |-> 0,
            deletedTasks |-> Len(db.tasks),
            deletedUsers |-> Len(db.users)])

truncateAllTables(db) ==
    Return("truncateAllTables", [db EXCEPT !.tasks = <<>>, !.taskHistory = <<>>, !.users = <<>>],
           [deletedHistory |-> Len(db.taskHistory),
            deletedTasks |-> Len(db.tasks),
            deletedUsers |-> Len(db.users)])

----------------------------------------------------------------------------
(* Strings, as the queries inspect them *)

\* The characters of the model's titles, descriptions and search strings.
Chars == {"a", "b", "A", "B", " "}

\* String.prototype.toLowerCase, one character.
LowerChar(c) ==
    CASE c = "A" -> "a"
      [] c = "B" -> "b"
      [] c = "S" -> "s"
      [] OTHER -> c

\* String.prototype.toLowerCase
toLowerCase(str) == [i \in DOMAIN str |-> LowerChar(str[i])]

IsWhitespace(c) == c = " "

\* String.prototype.trim: the whitespace at both ends removed.
RECURSIVE trimStart(_)
trimStart(str) ==
    IF str # <<>> /\ IsWhitespace(Head(str)) THEN trimStart(Tail(str)) ELSE str

RECURSIVE trimEnd(_)
trimEnd(str) ==
    IF str # <<>> /\ IsWhitespace(str[Len(str)])
    THEN trimEnd(SubSeq(str, 1, Len(str) - 1))
    ELSE str

trim(str) == trimEnd(trimStart(str))

\* String.prototype.includes
includes(str, search) ==
    \E i \in 0..(Len(str) - Len(search)) : SubSeq(str, i + 1, i + Len(search)) = search

----------------------------------------------------------------------------
(* Queries of convex/tasks.ts, as functions of the database *)

\* { ...task, historyCount }
WithHistoryCount(task, count) ==
    [f \in DOMAIN task \cup {"historyCount"} |->
        IF f = "historyCount" THEN count ELSE task[f]]

\* The search filter looking at titles only.
searchMatch_TitleOnly(task, query) == includes(toLowerCase(task.text), query)

\* The task filter of a search: title or description includes the query.
searchMatch(task, query) ==
    LET titleMatch == includes(toLowerCase(task.text), query)
        descriptionMatch ==
            IF task.description = None THEN FALSE
            ELSE includes(toLowerCase(task.description[1]), query)
    IN  titleMatch \/ descriptionMatch

\* searchQuery and userIds are optional: None, or Some(string), Some(list of ids).
listAllWithHistoryCount(db, searchQuery, userIds) ==
    LET byUser ==
            IF userIds # None /\ Len(userIds[1]) > 0
            THEN SelectSeq(db.tasks, LAMBDA task :
                     /\ task.userId # None
                     /\ \E k \in DOMAIN userIds[1] : userIds[1][k] = task.userId[1])
            ELSE db.tasks
        bySearch ==
            IF searchQuery # None /\ searchQuery[1] # <<>> /\ trim(searchQuery[1]) # <<>>
            THEN LET query == trim(toLowerCase(searchQuery[1])) IN
                 SelectSeq(byUser, LAMBDA task : searchMatch(task, query))
            ELSE byUser
    IN  [i \in DOMAIN bySearch |->
            WithHistoryCount(bySearch[i],
                             Len(HistoryByTask(db.taskHistory, bySearch[i]._id)))]

----------------------------------------------------------------------------
(* The statistics of the web client (src/App.tsx) *)

\* A duration of at most QuickMinutes minutes is quick (short).
QuickMinutes == 15

RECURSIVE SumHistoryCount(_)
SumHistoryCount(list) ==
    IF list = <<>> THEN 0 ELSE Head(list).historyCount + SumHistoryCount(Tail(list))

RECURSIVE MaxUpdatedAt(_)
MaxUpdatedAt(list) ==
    IF list = <<>> THEN 0
    ELSE LET m == MaxUpdatedAt(Tail(list))
             u == OrElse(Head(list).updatedAt, 0)
         IN  IF u > m THEN u ELSE m

\* The row with only the tasks without updatedAt counted as inactive.
userStatsRow_InactiveWithoutStamp(user, allTasks) ==
    LET userTasks == SelectSeq(allTasks, LAMBDA task : task.userId = Some(user._id)) IN
    [user |-> user,
     completed |-> Len(SelectSeq(userTasks, LAMBDA task : task.isCompleted)),
     incomplete |-> Len(SelectSeq(userTasks, LAMBDA task : ~task.isCompleted)),
     important |-> Len(SelectSeq(userTasks, LAMBDA task : Truthy(task.isImportant))),
     changes |-> SumHistoryCount(userTasks),
     lastActive |-> IF Len(userTasks) > 0 THEN Some(MaxUpdatedAt(userTasks)) ELSE None,
     inactive |-> Len(SelectSeq(userTasks, LAMBDA task : ~TruthyNum(task.updatedAt))),
     short |-> Len(SelectSeq(userTasks, LAMBDA task : OrElse(task.duration, 0) <= QuickMinutes)),
     long |-> Len(SelectSeq(userTasks, LAMBDA task : OrElse(task.duration, 0) > QuickMinutes))]

\* One row of userStats, before the rows are sorted.
userStatsRow(user, allTasks) ==
    LET userTasks == SelectSeq(allTasks, LAMBDA task : task.userId = Some(user._id)) IN
    [user |-> user,
     completed |-> Len(SelectSeq(userTasks, LAMBDA task : task.isCompleted)),
     incomplete |-> Len(SelectSeq(userTasks, LAMBDA task : ~task.isCompleted)),
     important |-> Len(SelectSeq(userTasks, LAMBDA task : Truthy(task.isImportant))),
     changes |-> SumHistoryCount(userTasks),
     lastActive |-> IF Len(userTasks) > 0 THEN Some(MaxUpdatedAt(userTasks)) ELSE None,
     inactive |-> Len(SelectSeq(userTasks, LAMBDA task :
                      \/ ~TruthyNum(task.updatedAt)
                      \/ (TruthyNum(task.createdAt) /\ task.updatedAt = task.createdAt))),
     short |-> Len(SelectSeq(userTasks, LAMBDA task : OrElse(task.duration, 0) <= QuickMinutes)),
     long |-> Len(SelectSeq(userTasks, LAMBDA task : OrElse(task.duration, 0) > QuickMinutes))]

----------------------------------------------------------------------------
(* The task list of the clients: filters, sort and pagination *)

\* The comparator with the two duration orders exchanged.
compareTasks_DurationsSwapped(a, b, sortKey) ==
    CASE sortKey = "latest" -> OrElse(b.updatedAt, 0) - OrElse(a.updatedAt, 0)
      [] sortKey = "inactive" -> OrElse(a.updatedAt, 0) - OrElse(b.updatedAt, 0)
      [] sortKey = "newest" -> OrElse(b.createdAt, 0) - OrElse(a.createdAt, 0)
      [] sortKey = "oldest" -> OrElse(a.createdAt, 0) - OrElse(b.createdAt, 0)
      [] sortKey = "frequent" -> b.historyCount - a.historyCount
      [] sortKey = "unfrequent" -> a.historyCount - b.historyCount
      [] sortKey = "quickest" -> OrElse(b.duration, 0) - OrElse(a.duration, 0)
      [] sortKey = "longest" -> OrElse(a.duration, 0) - OrElse(b.duration, 0)
      [] OTHER -> 0

\* The comparator with "unfrequent" ordering as "frequent" does.
compareTasks_UnfrequentAsFrequent(a, b, sortKey) ==
    CASE sortKey = "latest" -> OrElse(b.updatedAt, 0) - OrElse(a.updatedAt, 0)
      [] sortKey = "inactive" -> OrElse(a.updatedAt, 0) - OrElse(b.updatedAt, 0)
      [] sortKey = "newest" -> OrElse(b.createdAt, 0) - OrElse(a.createdAt, 0)
      [] sortKey = "oldest" -> OrElse(a.createdAt, 0) - OrElse(b.createdAt, 0)
      [] sortKey = "frequent" -> b.historyCount - a.historyCount
      [] sortKey = "unfrequent" -> b.historyCount - a.historyCount
      [] sortKey = "quickest" -> OrElse(a.duration, 0) - OrElse(b.duration, 0)
      [] sortKey = "longest" -> OrElse(b.duration, 0) - OrElse(a.duration, 0)
      [] OTHER -> 0

\* The comparator of the web list's sort: negative when a goes first.
compareTasks(a, b, sortKey) ==
    CASE sortKey = "latest" -> OrElse(b.updatedAt, 0) - OrElse(a.updatedAt, 0)
      [] sortKey = "inactive" -> OrElse(a.updatedAt, 0) - OrElse(b.updatedAt, 0)
      [] sortKey = "newest" -> OrElse(b.createdAt, 0) - OrElse(a.createdAt, 0)
      [] sortKey = "oldest" -> OrElse(a.createdAt, 0) - OrElse(b.createdAt, 0)
      [] sortKey = "frequent" -> b.historyCount - a.historyCount
      [] sortKey = "unfrequent" -> a.historyCount - b.historyCount
      [] sortKey = "quickest" -> OrElse(a.duration, 0) - OrElse(b.duration, 0)
      [] sortKey = "longest" -> OrElse(b.duration, 0) - OrElse(a.duration, 0)
      [] OTHER -> 0

\* The comparator of the mobile list's sort.
mobileCompareTasks(a, b, sortKey) ==
    CASE sortKey = "latest" -> OrElse(b.updatedAt, 0) - OrElse(a.updatedAt, 0)
      [] sortKey = "inactive" -> OrElse(a.updatedAt, 0) - OrElse(b.updatedAt, 0)
      [] sortKey = "newest" -> OrElse(b.createdAt, 0) - OrElse(a.createdAt, 0)
      [] sortKey = "oldest" -> OrElse(a.createdAt, 0) - OrElse(b.createdAt, 0)
      [] sortKey = "frequent" -> b.historyCount - a.historyCount
      [] sortKey = "unfrequent" -> a.historyCount - b.historyCount
      [] sortKey = "quickest" -> OrElse(a.duration, 0) - OrElse(b.duration, 0)
      [] sortKey = "longest" -> OrElse(b.duration, 0) - OrElse(a.duration, 0)
      [] OTHER -> 0

\* Array.prototype.sort with a comparator given by its table (cmp[j][i] is
\* its value on the elements at j and i): the sort is stable, so the element
\* at j ends before the one at i when the comparator puts it first or, the
\* comparator returning 0, when it came first. before[i] counts the elements
\* that end before the one at i.
arraySort(list, cmp) ==
    LET n == Len(list)
        before == [i \in 1..n |->
                      Cardinality({j \in 1..n : IF j < i THEN cmp[j][i] <= 0
                                                ELSE cmp[j][i] < 0})] \o <<>>
    IN  [k \in 1..n |-> list[CHOOSE i \in 1..n : before[i] = k - 1]] \o <<>>

\* The status filter of the web list.
statusMatch(task, completedOn, incompleteOn) ==
    IF completedOn /\ incompleteOn THEN TRUE
    ELSE IF completedOn /\ task.isCompleted THEN TRUE
    ELSE IF incompleteOn /\ ~task.isCompleted THEN TRUE
    ELSE FALSE

\* The duration filter with "quick" as strictly under 15 minutes.
durationMatch_QuickBelow(task, byDuration) ==
    IF byDuration = "all" THEN TRUE
    ELSE IF byDuration = "quick" THEN OrElse(task.duration, 0) < 15
    ELSE IF byDuration = "long" THEN OrElse(task.duration, 0) > 15
    ELSE TRUE

\* The duration filter of the web list.
durationMatch(task, byDuration) ==
    IF byDuration = "all" THEN TRUE
    ELSE IF byDuration = "quick" THEN OrElse(task.duration, 0) <= 15
    ELSE IF byDuration = "long" THEN OrElse(task.duration, 0) > 15
    ELSE TRUE

\* The importance filter of the web list.
importanceMatch(task, byImportance) ==
    IF byImportance = "all" THEN TRUE
    ELSE IF byImportance = "important" THEN task.isImportant = Some(TRUE)
    ELSE IF byImportance = "not-important" THEN ~Truthy(task.isImportant)
    ELSE TRUE

\* sortedAndFilteredTasks of the web client, as a function of the enriched
\* list and of the filter bar.
sortedAndFilteredTasks(allTasks, completedOn, incompleteOn, byDuration, byImportance, sortKey) ==
    LET byStatus == SelectSeq(allTasks, LAMBDA task :
                        statusMatch(task, completedOn, incompleteOn))
        durationFiltered == SelectSeq(byStatus, LAMBDA task : durationMatch(task, byDuration))
        filtered == SelectSeq(durationFiltered, LAMBDA task :
                        importanceMatch(task, byImportance))
    IN  arraySort(filtered,
                  [i \in DOMAIN filtered |-> [j \in DOMAIN filtered |->
                      compareTasks(filtered[i], filtered[j], sortKey)]])

\* The filter callback of the mobile list with an "important" tab that drops
\* only the tasks marked as not important.
mobileMatch_AbsentIsImportant(task, filter, byDuration) ==
    IF filter = "completed" /\ ~task.isCompleted THEN FALSE
    ELSE IF filter = "incomplete" /\ task.isCompleted THEN FALSE
    ELSE IF filter = "important" /\ task.isImportant = Some(FALSE) THEN FALSE
    ELSE IF byDuration = "quick" /\ OrElse(task.duration, 0) > 15 THEN FALSE
    ELSE IF byDuration = "long" /\ OrElse(task.duration, 0) <= 15 THEN FALSE
    ELSE TRUE

\* The filter callback of the mobile list: the screen's filter, then duration.
mobileMatch(task, filter, byDuration) ==
    IF filter = "completed" /\ ~task.isCompleted THEN FALSE
    ELSE IF filter = "incomplete" /\ task.isCompleted THEN FALSE
    ELSE IF filter = "important" /\ ~Truthy(task.isImportant) THEN FALSE
    ELSE IF byDuration = "quick" /\ OrElse(task.duration, 0) > 15 THEN FALSE
    ELSE IF byDuration = "long" /\ OrElse(task.duration, 0) <= 15 THEN FALSE
    ELSE TRUE

\* sortedAndFilteredTasks of the mobile TaskList.
mobileSortedAndFilteredTasks(allTasks, filter, byDuration, sortKey) ==
    LET filtered == SelectSeq(allTasks, LAMBDA task : mobileMatch(task, filter, byDuration))
    IN  arraySort(filtered,
                  [i \in DOMAIN filtered |-> [j \in DOMAIN filtered |->
                      mobileCompareTasks(filtered[i], filtered[j], sortKey)]])

\* sortedAndFilteredTasks.slice(0, visibleCount)
slice(list, count) == SubSeq(list, 1, IF count < Len(list) THEN count ELSE Len(list))

----------------------------------------------------------------------------
(* The statistics table of the web client: sort, user filter and totals *)

StatsSortColumns == {"user", "completed", "incomplete", "important", "changes",
                     "lastActive", "inactive", "short", "long"}

StatsSortDirections == {"asc", "desc"}

\* The place of a character in the alphabet.
CharRank(c) ==
    CASE c = " " -> 0
      [] c = "a" -> 1
      [] c = "b" -> 2
      [] OTHER -> 3

\* String.prototype.localeCompare on lower-case strings: -1, 0 or 1 by the
\* order of the dictionary.
RECURSIVE localeCompare(_, _)
localeCompare(a, b) ==
    IF a = <<>> /\ b = <<>> THEN 0
    ELSE IF a = <<>> THEN -1
    ELSE IF b = <<>> THEN 1
    ELSE IF CharRank(Head(a)) < CharRank(Head(b)) THEN -1
    ELSE IF CharRank(Head(a)) > CharRank(Head(b)) THEN 1
    ELSE localeCompare(Tail(a), Tail(b))

\* aValue / bValue of the comparator: the switch over statsSortColumn. None
\* is undefined, the value a column outside the switch leaves.
statsSortValue(stat, column) ==
    CASE column = "user" -> Some(toLowerCase(stat.user.name))
      [] column = "completed" -> Some(stat.completed)
      [] column = "incomplete" -> Some(stat.incomplete)
      [] column = "important" -> Some(stat.important)
      [] column = "changes" -> Some(stat.changes)
      [] column = "lastActive" -> Some(OrElse(stat.lastActive, 0))
      [] column = "inactive" -> Some(stat.inactive)
      [] column = "short" -> Some(stat.short)
      [] column = "long" -> Some(stat.long)
      [] OTHER -> None

\* The comparator of the statistics rows.
statsCompare(a, b, column, direction) ==
    LET aValue == statsSortValue(a, column)
        bValue == statsSortValue(b, column)
    IN  IF aValue = None /\ bValue = None THEN 0
        ELSE IF aValue = None THEN 1
        ELSE IF bValue = None THEN -1
        ELSE LET comparison ==
                     IF column = "user" THEN localeCompare(aValue[1], bValue[1])
                     ELSE aValue[1] - bValue[1]
             IN  IF direction = "asc" THEN comparison ELSE 0 - comparison

\* userStats: a row per user, in the order of the sort column and direction.
userStats(userList, taskList, column, direction) ==
    LET stats == [i \in DOMAIN userList |-> userStatsRow(userList[i], taskList)] \o <<>> IN
    arraySort(stats, [i \in DOMAIN stats |-> [j \in DOMAIN stats |->
                         statsCompare(stats[i], stats[j], column, direction)]])

\* The user filter that keeps selected rows only, also when none is selected.
filteredUserStats_SelectedOnly(stats, selected) ==
    SelectSeq(stats, LAMBDA stat : stat.user._id \in selected)

\* filteredUserStats: every row if no user is selected, else the selected ones.
filteredUserStats(stats, selected) ==
    IF Cardinality(selected) = 0 THEN stats
    ELSE SelectSeq(stats, LAMBDA stat : stat.user._id \in selected)

NumericColumns == {"completed", "incomplete", "important", "changes", "inactive",
                   "short", "long"}

\* The totals row: the reduce over filteredUserStats, from zero in each column.
RECURSIVE totals(_)
totals(stats) ==
    IF stats = <<>> THEN [column \in NumericColumns |-> 0]
    ELSE LET acc == totals(SubSeq(stats, 1, Len(stats) - 1))
             stat == stats[Len(stats)]
         IN  [column \in NumericColumns |-> acc[column] + stat[column]]

\* Array.from(set): the elements of a set as an array.
ArrayFrom(set) ==
    CHOOSE list \in [1..Cardinality(set) -> set] : Range(list) = set

----------------------------------------------------------------------------
(* Documents the seeding mutations leave in the tables *)

\* A task as seedTasksForUsers inserts it: every field set, updatedAt = createdAt.
SeededTask(id, text, description, isCompleted, isImportant, createdAt, duration, userId) ==
    [_id |-> id, text |-> text, description |-> Some(description),
     isCompleted |-> isCompleted, isImportant |-> Some(isImportant),
     createdAt |-> Some(createdAt), updatedAt |-> Some(createdAt),
     duration |-> Some(duration), userId |-> Some(userId)]

\* A task of the first schema: title and completion flag only.
LegacyTask(id, text, isCompleted) ==
    [_id |-> id, text |-> text, description |-> None,
     isCompleted |-> isCompleted, isImportant |-> None,
     createdAt |-> None, updatedAt |-> None,
     duration |-> None, userId |-> None]

\* A user as addUsers inserts it.
SeededUser(id, name) == [_id |-> id, name |-> name, image |-> None, color |-> None]

SeededUsers == <<SeededUser("u1", "Naruto"), SeededUser("u2", "Sasuke")>>

----------------------------------------------------------------------------
(* The web client (src/App.tsx): its filters, as read from the URL *)

PAGE_SIZE == 50

DurationFilters == {"all", "quick", "long"}
ImportanceFilters == {"all", "important", "not-important"}
SortTypes == {"latest", "inactive", "newest", "oldest", "frequent", "unfrequent",
              "quickest", "longest"}

\* A query string without parameters: URLSearchParams.get returns null for each.
NoParams ==
    [completed |-> None, incomplete |-> None, duration |-> None,
     importance |-> None, sort |-> None, users |-> None]

\* param && allowed.includes(param) ? param : fallback
ParamAmong(param, allowed, fallback) ==
    IF param # None /\ param[1] # "" /\ param[1] \in allowed THEN param[1] ELSE fallback

\* getInitialParams: params gives, per parameter, None or Some(string).
getInitialParams(params) ==
    [showCompleted |-> IF params.completed = None THEN TRUE
                       ELSE params.completed[1] = "true",
     showIncomplete |-> IF params.incomplete = None THEN TRUE
                        ELSE params.incomplete[1] = "true",
     durationFilter |-> ParamAmong(params.duration, DurationFilters, "all"),
     importanceFilter |-> ParamAmong(params.importance, ImportanceFilters, "all"),
     sort |-> ParamAmong(params.sort, SortTypes, "latest"),
     selectedUsers |-> IF params.users = None THEN {}
                       ELSE {id \in Range(params.users[1]) : id # ""}]

\* The delay of the search input's debounce, in ms.
DebounceMs == 400

\* The useState initialisers of App, for a page opened with these parameters,
\* and the timer its debounce effect sets on the first render.
AppMounted(params) ==
    \E initialParams \in {getInitialParams(params)} :
        /\ showCompleted = initialParams.showCompleted
        /\ showIncomplete = initialParams.showIncomplete
        /\ durationFilter = initialParams.durationFilter
        /\ importanceFilter = initialParams.importanceFilter
        /\ sort = initialParams.sort
        /\ visibleCount = PAGE_SIZE
        /\ selectedUsers = initialParams.selectedUsers
        /\ statsSortColumn = "lastActive"
        /\ statsSortDirection = "desc"
        /\ togglingTasks = {}
        /\ togglingImportance = {}
        /\ searchInput = <<>>
        /\ debouncedSearchQuery = <<>>
        /\ timers = {[value |-> <<>>, left |-> DebounceMs]}
        /\ sinceInput = 0

----------------------------------------------------------------------------
(* The mobile client (mobile/components/TaskList.tsx and its tab screens) *)

MOBILE_PAGE_SIZE == 9

FilterTypes == {"all", "completed", "incomplete", "important"}

\* The screens that pass onDurationFilterChange to TaskList.
DurationScreens == {"important", "incomplete"}

\* A tab's screen and its TaskList after the first render.
MobileMounted(filter) ==
    /\ mobileFilter = filter
    /\ mobileDurationFilter = "all"
    /\ mobileSort = "latest"
    /\ mobileVisibleCount = MOBILE_PAGE_SIZE
    /\ togglingTaskId = None
    /\ togglingType = None

----------------------------------------------------------------------------
(* Invocations of a mutation in progress *)

Slots == 1..MaxCalls

\* A slot without invocation. Of an invocation the slot holds the handler
\* and its argument, the statement reached (pc), the task it read, the
\* constants now and newStatus of the handler, and the writes it has made,
\* which the database holds back until the mutation commits.
Idle ==
    [pc |-> "idle", op |-> "none", id |-> "none", task |-> None,
     at |-> 0, newStatus |-> FALSE, writes |-> <<>>]

NoCalls == [slot \in Slots |-> Idle]

----------------------------------------------------------------------------
(* The backend as a state machine: one action per mutation *)

\* What a handler may write: the model keeps taskHistory within MaxHistory.
Fits(r) == Len(r.taskHistory) <= MaxHistory

\* The tasks the seeding mutations inserted: one seeded with its owner, and
\* possibly one of the first schema; their flags are whatever the seed drew.
SeededTasks(c1, c2, n) ==
    SubSeq(<< SeededTask("t1", <<"S", "a", "v", "e">>, <<"b", "a", "d">>,
                         c1, TRUE, 1, 10, "u1"),
              LegacyTask("t2", <<"B", "u", "y">>, c2) >>, 1, n)

Init ==
    /\ \E c1 \in BOOLEAN, c2 \in BOOLEAN, n \in {1, 2} :
          tasks = SeededTasks(c1, c2, n)
    /\ taskHistory = <<>>
    /\ users = SeededUsers
    /\ now = 2
    /\ result = [op |-> "none", error |-> None, value |-> None]
    /\ calls = NoCalls
    /\ requests = <<>>
    /\ AppMounted(NoParams)
    /\ MobileMounted("all")

\* The clock advances between two handlers. An instant at which nothing was
\* written is not told apart from the next one: the clock advances once a
\* history document carries the present instant.
Tick ==
    /\ now < MaxTime
    /\ \E i \in DOMAIN taskHistory : taskHistory[i].changedAt = now
    /\ now' = now + 1
    /\ UNCHANGED <<tasks, taskHistory, users, result, webVars, mobileVars, clientVars, statsVars, calls>>

ToggleCompleted(id) ==
    \E r \in {toggleCompleted(Db, id)} :
    /\ Fits(r)
    /\ tasks' = r.tasks
    /\ taskHistory' = r.taskHistory
    /\ users' = r.users
    /\ result' = r.result
    /\ UNCHANGED <<now, webVars, mobileVars, clientVars, statsVars, calls>>

ToggleImportant(id) ==
    \E r \in {toggleImportant(Db, id)} :
    /\ Fits(r)
    /\ tasks' = r.tasks
    /\ taskHistory' = r.taskHistory
    /\ users' = r.users
    /\ result' = r.result
    /\ UNCHANGED <<now, webVars, mobileVars, clientVars, statsVars, calls>>

ToggleAll(ids) ==
    \E r \in {toggleAll(Db, ids)} :
    /\ Fits(r)
    /\ tasks' = r.tasks
    /\ taskHistory' = r.taskHistory
    /\ users' = r.users
    /\ result' = r.result
    /\ UNCHANGED <<now, webVars, mobileVars, clientVars, statsVars, calls>>

SetAllCompleted(ids, value) ==
    \E r \in {setAllCompleted(Db, ids, value)} :
    /\ Fits(r)
    /\ tasks' = r.tasks
    /\ taskHistory' = r.taskHistory
    /\ users' = r.users
    /\ result' = r.result
    /\ UNCHANGED <<now, webVars, mobileVars, clientVars, statsVars, calls>>

ResetAllTasksStatus ==
    \E r \in {resetAllTasksStatus(Db)} :
    /\ Fits(r)
    /\ tasks' = r.tasks
    /\ taskHistory' = r.taskHistory
    /\ users' = r.users
    /\ result' = r.result
    /\ UNCHANGED <<now, webVars, mobileVars, clientVars, statsVars, calls>>

TruncateAllTables ==
    \E r \in {truncateAllTables(Db)} :
    /\ Fits(r)
    /\ tasks' = r.tasks
    /\ taskHistory' = r.taskHistory
    /\ users' = r.users
    /\ result' = r.result
    /\ UNCHANGED <<now, webVars, mobileVars, clientVars, statsVars, calls>>

\* The id lists a bulk mutation is called with.
IdLists == SeqsUpTo(TaskIds, MaxIds)

Next ==
    \/ Tick
    \/ \E id \in TaskIds : ToggleCompleted(id)
    \/ \E id \in TaskIds : ToggleImportant(id)
    \/ \E ids \in IdLists : ToggleAll(ids)
    \/ \E ids \in IdLists, value \in BOOLEAN : SetAllCompleted(ids, value)
    \/ ResetAllTasksStatus
    \/ TruncateAllTables

Spec == Init /\ [][Next]_vars

----------------------------------------------------------------------------
(* Vocabulary of the properties *)

Exists(id) == DbGet(tasks, id) # None

\* The task document with this id, in a tasks table that holds it.
TaskOf(table, id) == DbGet(table, id)[1]

\* The positions of the history documents of one task.
EntriesOf(history, id) == {i \in DOMAIN history : history[i].taskId = id}

\* The database a handler's outcome r leaves, read at time t.
DbAfter(r, t) == [tasks |-> r.tasks, taskHistory |-> r.taskHistory, users |-> r.users, now |-> t]

LastEntry == taskHistory[Len(taskHistory)]

----------------------------------------------------------------------------
(* C1..C3: toggleCompleted *)

\* C1: for every existing task, one toggleCompleted(id) call negates the
\* completion flag, sets updatedAt to the time of the call, and appends exactly
\* one history document, for that task, of kind "completion", with changedTo
\* the new flag and changedAt that same time.
C1_ToggleCompletedEffect ==
    \A id \in TaskIds :
        Exists(id) =>
            \A r \in {toggleCompleted(Db, id)} :
            LET before == TaskOf(tasks, id)
                after == TaskOf(r.tasks, id)
                n == Len(taskHistory)
            IN  /\ r.result.error = None
                /\ after.isCompleted = ~before.isCompleted
                /\ after.updatedAt = Some(now)
                /\ Len(r.taskHistory) = n + 1
                /\ SubSeq(r.taskHistory, 1, n) = taskHistory
                /\ r.taskHistory[n + 1].taskId = id
                /\ r.taskHistory[n + 1].changeType = Some("completion")
                /\ r.taskHistory[n + 1].changedTo = after.isCompleted
                /\ r.taskHistory[n + 1].changedAt = now
                /\ Cardinality(EntriesOf(r.taskHistory, id))
                       = Cardinality(EntriesOf(taskHistory, id)) + 1

\* A toggleCompleted call has just returned: its history document is the last
\* one, and the task carries the new flag and the time of the call.
C1_Witness ==
    /\ result.op = "toggleCompleted"
    /\ result.error = None
    /\ taskHistory # <<>>
    /\ LastEntry.changeType = Some("completion")
    /\ LastEntry.changedAt = now
    /\ Exists(LastEntry.taskId)
    /\ TaskOf(tasks, LastEntry.taskId).isCompleted = LastEntry.changedTo
    /\ TaskOf(tasks, LastEntry.taskId).updatedAt = Some(now)
    /\ TaskOf(tasks, LastEntry.taskId).createdAt # Some(now)

\* C2: toggleCompleted or toggleImportant with the id of no task fails with
\* "Task not found" and leaves the tasks and the history as they were.
C2_ToggleMissingTask ==
    \A id \in TaskIds :
        ~Exists(id) =>
            LET rc == toggleCompleted(Db, id)
                ri == toggleImportant(Db, id)
            IN  /\ rc.result.error = Some("Task not found")
                /\ rc.tasks = tasks
                /\ rc.taskHistory = taskHistory
                /\ ri.result.error = Some("Task not found")
                /\ ri.tasks = tasks
                /\ ri.taskHistory = taskHistory

\* A toggle was called with the id of no task while other documents exist,
\* and was rejected.
C2_Witness ==
    /\ result.op \in {"toggleCompleted", "toggleImportant"}
    /\ result.error = Some("Task not found")
    /\ tasks # <<>>
    /\ taskHistory # <<>>

\* C3: for every existing task, two toggleCompleted calls in succession leave
\* the completion flag as it was and the history two documents longer: the
\* first with changedTo the negated original flag, the second with the
\* original flag.
C3_ToggleCompletedTwice ==
    \A id \in TaskIds, later \in now..MaxTime :
        Exists(id) =>
            \A first \in {toggleCompleted(Db, id)} :
            \A second \in {toggleCompleted(DbAfter(first, later), id)} :
            LET original == TaskOf(tasks, id).isCompleted
                n == Len(taskHistory)
            IN  /\ TaskOf(second.tasks, id).isCompleted = original
                /\ Len(second.taskHistory) = n + 2
                /\ SubSeq(second.taskHistory, 1, n) = taskHistory
                /\ EntriesOf(second.taskHistory, id)
                       = EntriesOf(taskHistory, id) \cup {n + 1, n + 2}
                /\ second.taskHistory[n + 1].changedTo = ~original
                /\ second.taskHistory[n + 2].changedTo = original

\* Two toggleCompleted calls on one task have followed each other: the last two
\* history documents are theirs, with opposite values, at different times.
C3_Witness ==
    /\ result.op = "toggleCompleted"
    /\ Len(taskHistory) >= 2
    /\ LET a == taskHistory[Len(taskHistory) - 1]
           b == LastEntry
       IN  /\ a.taskId = b.taskId
           /\ a.changeType = Some("completion")
           /\ b.changeType = Some("completion")
           /\ a.changedTo = ~b.changedTo
           /\ a.changedAt < b.changedAt
           /\ Exists(b.taskId)
           /\ TaskOf(tasks, b.taskId).isCompleted = b.changedTo

----------------------------------------------------------------------------
(* C4: every write of a flag is recorded *)

\* The completion flag, or the importance flag as the code reads it (an absent
\* flag reads as false), of the task differs between the two tables.
FlagChanged(before, after, id) ==
    \/ TaskOf(before, id).isCompleted # TaskOf(after, id).isCompleted
    \/ Truthy(TaskOf(before, id).isImportant) # Truthy(TaskOf(after, id).isImportant)

\* C4: every mutation that changes the completion or importance flag of a task
\* also sets that task's updatedAt to the time of the call and appends exactly
\* one history document for that task (toggleCompleted, toggleImportant,
\* toggleAll, setAllCompleted and resetAllTasksStatus).
C4_FlagChangeRecorded ==
    [][\A id \in TaskIds :
          (/\ DbGet(tasks, id) # None
           /\ DbGet(tasks', id) # None
           /\ FlagChanged(tasks, tasks', id))
          => /\ TaskOf(tasks', id).updatedAt = Some(now)
             /\ Cardinality(EntriesOf(taskHistory', id))
                    = Cardinality(EntriesOf(taskHistory, id)) + 1]_vars

----------------------------------------------------------------------------
(* C5: setAllCompleted *)

\* The ids of a list.
Listed(ids) == {ids[k] : k \in DOMAIN ids}

\* The listed tasks that exist and whose completion flag differs from value.
Differing(ids, value) ==
    {id \in Listed(ids) : Exists(id) /\ TaskOf(tasks, id).isCompleted # value}

\* C5: setAllCompleted(ids, value) patches, and appends one history document
\* for, exactly the existing listed tasks whose completion flag differed from
\* value; tasks already at value and ids of no task get no document and keep
\* their updatedAt; the number of new documents is the number of distinct
\* listed tasks whose flag differed.
C5_SetAllCompletedSelective ==
    \A ids \in IdLists, value \in BOOLEAN :
        \A r \in {setAllCompleted(Db, ids, value)}, differing \in {Differing(ids, value)} :
        LET n == Len(taskHistory)
            added == (n + 1)..Len(r.taskHistory)
        IN  /\ r.result.error = None
            /\ Len(r.tasks) = Len(tasks)
            /\ SubSeq(r.taskHistory, 1, n) = taskHistory
            /\ Len(r.taskHistory) = n + Cardinality(differing)
            /\ \A id \in TaskIds :
                  IF id \in differing
                  THEN /\ \A task \in {TaskOf(r.tasks, id)} :
                             /\ task.isCompleted = value
                             /\ task.updatedAt = Some(now)
                       /\ Cardinality({k \in added : r.taskHistory[k].taskId = id}) = 1
                       /\ \A k \in added :
                             r.taskHistory[k].taskId = id
                             => /\ r.taskHistory[k].changedTo = value
                                /\ r.taskHistory[k].changedAt = now
                  ELSE /\ DbGet(r.tasks, id) = DbGet(tasks, id)
                       /\ \A k \in added : r.taskHistory[k].taskId # id

\* setAllCompleted has just returned from a call that changed one task: its one
\* history document is the last, and the other task, already at that value,
\* keeps the updatedAt it had.
C5_Witness ==
    /\ result.op = "setAllCompleted"
    /\ Len(tasks) = 2
    /\ Len(taskHistory) = 1
    /\ LastEntry.changeType = None
    /\ LastEntry.changedAt = now
    /\ \A i \in DOMAIN tasks : tasks[i].isCompleted = LastEntry.changedTo
    /\ \E i \in DOMAIN tasks :
          /\ tasks[i]._id # LastEntry.taskId
          /\ tasks[i].updatedAt # Some(now)

----------------------------------------------------------------------------
(* C6: the history is append-only *)

\* C6: across every backend operation other than truncateAllTables the history
\* only grows: no document is removed, and the taskId, changeType, changedTo and
\* changedAt of a document stay as they were inserted.
C6_HistoryAppendOnly ==
    [][\/ TruncateAllTables
       \/ /\ Len(taskHistory') >= Len(taskHistory)
          /\ \A i \in DOMAIN taskHistory :
                /\ taskHistory'[i].taskId = taskHistory[i].taskId
                /\ taskHistory'[i].changeType = taskHistory[i].changeType
                /\ taskHistory'[i].changedTo = taskHistory[i].changedTo
                /\ taskHistory'[i].changedAt = taskHistory[i].changedAt]_vars

\* The history holds two documents of one task, inserted at different times,
\* and a later mutation (the reset) has run over them.
C6_Witness ==
    /\ result.op = "resetAllTasksStatus"
    /\ Len(taskHistory) = 2
    /\ taskHistory[1].taskId = taskHistory[2].taskId
    /\ taskHistory[1].changedAt < taskHistory[2].changedAt

----------------------------------------------------------------------------
(* C7: listAllWithHistoryCount, one record per matching task, with its count *)

\* The arguments the list query is called with.
C7_Calls ==
    {<<None, None>>, <<Some(<<>>), Some(<<>>)>>, <<Some(<<"B", "u">>), None>>,
     <<None, Some(<<"u1">>)>>, <<Some(<<"a">>), Some(<<"u2", "u1">>)>>}

\* The task passes the filters of the call.
C7_Matches(task, searchQuery, userIds) ==
    /\ (userIds # None /\ userIds[1] # <<>>) =>
           \E k \in DOMAIN userIds[1] : task.userId = Some(userIds[1][k])
    /\ (searchQuery # None /\ trim(searchQuery[1]) # <<>>) =>
           searchMatch(task, trim(toLowerCase(searchQuery[1])))

\* The historyCount the list reports for a task, 0 when the task is not listed.
C7_CountOf(list, id) ==
    IF \E i \in DOMAIN list : list[i]._id = id
    THEN list[CHOOSE i \in DOMAIN list : list[i]._id = id].historyCount
    ELSE 0

C7_ToggleRaisesOne(r, id) ==
    \A before \in {listAllWithHistoryCount(Db, None, None)} :
    \A after \in {listAllWithHistoryCount(DbAfter(r, now), None, None)} :
        \A other \in TaskIds :
            C7_CountOf(after, other) =
                C7_CountOf(before, other) + (IF other = id THEN 1 ELSE 0)

\* C7: in every reachable database listAllWithHistoryCount returns one record
\* per task that passes its filters and none for any other, each record being
\* the task with historyCount = the number of taskHistory documents whose
\* taskId is the task; one toggleCompleted or toggleImportant on a task raises
\* that task's historyCount by 1 and no other's.
C7_ListCountsHistory ==
    /\ \A call \in C7_Calls :
          \A list \in {listAllWithHistoryCount(Db, call[1], call[2])} :
          /\ \A i \in DOMAIN tasks :
                Cardinality({k \in DOMAIN list : list[k]._id = tasks[i]._id}) =
                    (IF C7_Matches(tasks[i], call[1], call[2]) THEN 1 ELSE 0)
          /\ \A k \in DOMAIN list :
                /\ \E i \in DOMAIN tasks :
                      /\ tasks[i]._id = list[k]._id
                      /\ \A f \in DOMAIN tasks[i] : list[k][f] = tasks[i][f]
                /\ list[k].historyCount =
                      Cardinality({h \in DOMAIN taskHistory :
                                      taskHistory[h].taskId = list[k]._id})
    /\ \A id \in TaskIds :
          Exists(id) =>
              /\ C7_ToggleRaisesOne(toggleCompleted(Db, id), id)
              /\ C7_ToggleRaisesOne(toggleImportant(Db, id), id)

\* Two tasks are stored, one with two history documents and one with none,
\* the second document having just been inserted by a toggle, and the list
\* reports these counts.
C7_Witness ==
    /\ result.op \in {"toggleCompleted", "toggleImportant"}
    /\ result.error = None
    /\ Len(tasks) = 2
    /\ Len(taskHistory) = 2
    /\ C7_CountOf(listAllWithHistoryCount(Db, None, None), result.value[1]._id) = 2
    /\ \E id \in TaskIds :
          /\ Exists(id)
          /\ C7_CountOf(listAllWithHistoryCount(Db, None, None), id) = 0

----------------------------------------------------------------------------
(* The list query over stores of varied titles, descriptions and owners *)

\* Titles and descriptions of the searched task: letters of both cases,
\* whitespace inside, the empty string, and no description at all.
SearchTitles ==
    {<<>>, <<"a">>, <<"a", "B">>, <<"B", "a">>, <<"a", " ", "b">>, <<"A", "A">>}

SearchDescriptions ==
    {None, Some(<<>>), Some(<<"b">>), Some(<<"B", " ", "a">>)}

\* The search strings and user filters a client sends.
SearchQueries == {None} \cup {Some(q) : q \in SeqsUpTo(Chars, MaxQuery)}

SearchUserFilters == {None, Some(<<>>), Some(<<"u1">>), Some(<<"u2">>)}

\* The store: the seeded task of user u1, and a second task whose title,
\* description and owner are drawn.
SearchInit ==
    /\ \E text \in SearchTitles, description \in SearchDescriptions,
          owner \in {None} \cup {Some(u) : u \in UserIds} :
          tasks = <<SeededTasks(FALSE, FALSE, 1)[1],
                    [LegacyTask("t2", text, FALSE) EXCEPT !.description = description,
                                                          !.userId = owner]>>
    /\ taskHistory = <<>>
    /\ users = SeededUsers
    /\ now = 2
    /\ result = [op |-> "none", error |-> None, value |-> None]
    /\ calls = NoCalls
    /\ requests = <<>>
    /\ AppMounted(NoParams)
    /\ MobileMounted("all")

\* A client runs the list query.
ListAllWithHistoryCount(searchQuery, userIds) ==
    /\ result' = Return("listAllWithHistoryCount", Db,
                        listAllWithHistoryCount(Db, searchQuery, userIds)).result
    /\ UNCHANGED <<tasks, taskHistory, users, now, webVars, mobileVars, clientVars, statsVars, calls>>

SearchNext ==
    \E searchQuery \in SearchQueries, userIds \in SearchUserFilters :
        ListAllWithHistoryCount(searchQuery, userIds)

SpecSearch == SearchInit /\ [][SearchNext]_vars

----------------------------------------------------------------------------
(* C8: the search of listAllWithHistoryCount *)

\* Two characters that are the same letter, whatever their case.
C8_SameLetter(c, d) ==
    \/ c = d
    \/ {c, d} \in {{"a", "A"}, {"b", "B"}, {"s", "S"}}

\* str contains sub, case ignored.
C8_Contains(str, sub) ==
    \E start \in 0..(Len(str) - Len(sub)) :
        \A k \in 1..Len(sub) : C8_SameLetter(str[start + k], sub[k])

\* The search string from its first to its last non-blank character.
C8_Trimmed(q) ==
    LET inked == {k \in DOMAIN q : q[k] # " "} IN
    IF inked = {} THEN <<>>
    ELSE SubSeq(q, CHOOSE k \in inked : \A j \in inked : k <= j,
                   CHOOSE k \in inked : \A j \in inked : k >= j)

C8_Ids(list) == {list[i]._id : i \in DOMAIN list}

\* C8: with a search string the list holds exactly the tasks, within the user
\* filter, whose title or description contains the trimmed string, case
\* ignored (a task without description is matched on its title only); with an
\* empty or blank search string it is the list of a call without one.
C8_SearchIsSubstringMatch ==
    \A searchQuery \in SearchQueries \ {None}, userIds \in SearchUserFilters :
        \A q \in {C8_Trimmed(searchQuery[1])},
           unfiltered \in {listAllWithHistoryCount(Db, None, userIds)},
           found \in {listAllWithHistoryCount(Db, searchQuery, userIds)} :
            IF q = <<>>
            THEN found = unfiltered
            ELSE C8_Ids(found) =
                    {unfiltered[i]._id : i \in
                        {i \in DOMAIN unfiltered :
                            \/ C8_Contains(unfiltered[i].text, q)
                            \/ /\ unfiltered[i].description # None
                               /\ C8_Contains(unfiltered[i].description[1], q)}}

\* A search string with blanks around a capital letter was sent with a user
\* filter, and the list returned holds only that user's task, whose description
\* has the letter in lower case and whose title does not have it.
C8_Witness ==
    /\ result.op = "listAllWithHistoryCount"
    /\ result.value =
          Some(listAllWithHistoryCount(Db, Some(<<" ", "B", " ">>), Some(<<"u2">>)))
    /\ Len(result.value[1]) = 1
    /\ result.value[1][1].description = Some(<<"b">>)
    /\ ~ C8_Contains(result.value[1][1].text, <<"b">>)
    /\ Len(listAllWithHistoryCount(Db, Some(<<" ", "B", " ">>), None)) = 2

----------------------------------------------------------------------------
(* C9: toggleImportant and the statistics of the owning user *)

\* The statistics row of a user over the unfiltered list of a database.
C9_StatsOf(db, user) == userStatsRow(user, listAllWithHistoryCount(db, None, None))

C9_Frame == {"isCompleted", "text", "description", "duration", "createdAt", "userId"}

----------------------------------------------------------------------------
(* The web client as a state machine: a page load, then clicks *)

\* Values of the URL parameters a page is opened with.
FlagParams == {None, Some("true"), Some("false"), Some("")}
DurationParams == {None, Some("quick"), Some("long"), Some("short")}
ImportanceParams == {None, Some("important"), Some("not-important"), Some("")}
SortParams == {None, Some("oldest"), Some("alphabetical")}

WebInit ==
    /\ tasks = SeededTasks(FALSE, TRUE, 2)
    /\ taskHistory = <<>>
    /\ users = SeededUsers
    /\ now = 2
    /\ result = [op |-> "none", error |-> None, value |-> None]
    /\ calls = NoCalls
    /\ requests = <<>>
    /\ \E completed \in FlagParams, incomplete \in FlagParams,
          duration \in DurationParams, importance \in ImportanceParams,
          sortParam \in SortParams :
          AppMounted([completed |-> completed, incomplete |-> incomplete,
                      duration |-> duration, importance |-> importance,
                      sort |-> sortParam, users |-> None])
    /\ MobileMounted("all")

toggleShowCompleted ==
    /\ ~(showCompleted /\ ~showIncomplete)
    /\ showCompleted' = ~showCompleted
    /\ visibleCount' = PAGE_SIZE
    /\ UNCHANGED <<dbVars, mobileVars, clientVars, statsVars, showIncomplete, durationFilter, importanceFilter, sort>>

toggleShowIncomplete ==
    /\ ~(showIncomplete /\ ~showCompleted)
    /\ showIncomplete' = ~showIncomplete
    /\ visibleCount' = PAGE_SIZE
    /\ UNCHANGED <<dbVars, mobileVars, clientVars, statsVars, showCompleted, durationFilter, importanceFilter, sort>>

\* The "Quick" and "Long" buttons: select the filter, or clear it when selected.
ClickDuration(filter) ==
    /\ durationFilter' = IF durationFilter = filter THEN "all" ELSE filter
    /\ visibleCount' = PAGE_SIZE
    /\ UNCHANGED <<dbVars, mobileVars, clientVars, statsVars, showCompleted, showIncomplete, importanceFilter, sort>>

\* The "Important" button.
ClickImportant ==
    /\ importanceFilter' = IF importanceFilter = "important" THEN "all" ELSE "important"
    /\ visibleCount' = PAGE_SIZE
    /\ UNCHANGED <<dbVars, mobileVars, clientVars, statsVars, showCompleted, showIncomplete, durationFilter, sort>>

\* The sort dropdown.
SelectSort(value) ==
    /\ sort' = value
    /\ visibleCount' = PAGE_SIZE
    /\ UNCHANGED <<dbVars, mobileVars, clientVars, statsVars, showCompleted, showIncomplete, durationFilter,
                   importanceFilter>>

WebNext ==
    \/ toggleShowCompleted
    \/ toggleShowIncomplete
    \/ \E filter \in {"quick", "long"} : ClickDuration(filter)
    \/ ClickImportant
    \/ \E value \in SortTypes : SelectSort(value)

SpecWeb == WebInit /\ [][WebNext]_vars

----------------------------------------------------------------------------
(* C10: the status toggles *)

\* C10: in every reachable state of the web client, whatever query string the
\* page was opened with and whatever status toggles were clicked since, at
\* least one of showCompleted and showIncomplete is true.
C10_OneStatusShown == showCompleted \/ showIncomplete

----------------------------------------------------------------------------
(* The clients over stores of varied tasks *)

\* Kinds of task a store holds: a first-schema task never touched; a seeded
\* task of exactly 15 minutes toggled once; two tasks of 16 minutes, toggled
\* twice and once, that share their creation time.
ListProfiles ==
    { [isCompleted |-> TRUE, isImportant |-> None, duration |-> None,
       createdAt |-> None, updatedAt |-> None, changes |-> 0],
      [isCompleted |-> FALSE, isImportant |-> Some(TRUE), duration |-> Some(15),
       createdAt |-> Some(1), updatedAt |-> Some(2), changes |-> 1],
      [isCompleted |-> FALSE, isImportant |-> Some(FALSE), duration |-> Some(16),
       createdAt |-> Some(2), updatedAt |-> Some(4), changes |-> 2],
      [isCompleted |-> TRUE, isImportant |-> Some(TRUE), duration |-> Some(16),
       createdAt |-> Some(2), updatedAt |-> Some(3), changes |-> 1] }

\* The task document of a profile, stored under this id.
ProfileTask(id, profile) ==
    [_id |-> id, text |-> <<"a">>, description |-> None,
     isCompleted |-> profile.isCompleted, isImportant |-> profile.isImportant,
     createdAt |-> profile.createdAt, updatedAt |-> profile.updatedAt,
     duration |-> profile.duration, userId |-> None]

\* The history documents of the tasks of a store, task after task: the last
\* change of a task is the one its updatedAt and its flag carry.
RECURSIVE ProfileHistory(_, _)
ProfileHistory(profiles, i) ==
    IF i > Len(profiles) THEN <<>>
    ELSE [k \in 1..profiles[i].changes |->
             HistoryEntry(i, Some("completion"),
                          IF k = profiles[i].changes THEN profiles[i].isCompleted
                          ELSE ~profiles[i].isCompleted,
                          profiles[i].updatedAt[1] - (profiles[i].changes - k))]
         \o ProfileHistory(profiles, i + 1)

ListStores == SeqsUpTo(ListProfiles, MaxListTasks)

ListInit ==
    /\ \E profiles \in ListStores :
          /\ tasks = [i \in DOMAIN profiles |-> ProfileTask(i, profiles[i])]
          /\ taskHistory = ProfileHistory(profiles, 1)
    /\ users = SeededUsers
    /\ now = 5
    /\ result = [op |-> "none", error |-> None, value |-> None]
    /\ calls = NoCalls
    /\ requests = <<>>
    /\ AppMounted(NoParams)
    /\ \E filter \in FilterTypes : MobileMounted(filter)

\* The duration button of a mobile screen: all, quick, long, and round again.
cycleDurationFilter ==
    /\ mobileFilter \in DurationScreens
    /\ mobileDurationFilter' =
          (IF mobileDurationFilter = "all" THEN "quick"
           ELSE IF mobileDurationFilter = "quick" THEN "long" ELSE "all")
    /\ mobileVisibleCount' = MOBILE_PAGE_SIZE
    /\ UNCHANGED <<dbVars, webVars, clientVars, statsVars, mobileFilter, mobileSort>>

ListNext ==
    \/ toggleShowCompleted
    \/ toggleShowIncomplete
    \/ \E filter \in {"quick", "long"} : ClickDuration(filter)
    \/ ClickImportant
    \/ cycleDurationFilter

SpecList == ListInit /\ [][ListNext]_vars

\* The enriched list both clients receive from listAllWithHistoryCount.
allTasks == listAllWithHistoryCount(Db, None, None)

----------------------------------------------------------------------------
(* C11: the duration filter *)

\* The ids of the tasks of a list.
IdsOf(list) == {list[i]._id : i \in DOMAIN list}

\* The lists the two clients show in the present state, for a duration filter.
C11_WebList(byDuration) ==
    sortedAndFilteredTasks(allTasks, showCompleted, showIncomplete, byDuration,
                           importanceFilter, sort)

C11_MobileList(byDuration) ==
    mobileSortedAndFilteredTasks(allTasks, mobileFilter, byDuration, mobileSort)

\* all splits into quick, the tasks of at most 15 minutes or of no duration,
\* and long, the tasks of more than 15 minutes.
C11_Splits(all, quick, long) ==
    /\ IdsOf(quick) = {all[i]._id : i \in
                          {i \in DOMAIN all : \/ all[i].duration = None
                                              \/ all[i].duration[1] <= 15}}
    /\ IdsOf(long) = {all[i]._id : i \in
                         {i \in DOMAIN all : /\ all[i].duration # None
                                             /\ all[i].duration[1] > 15}}
    /\ IdsOf(quick) \cap IdsOf(long) = {}
    /\ IdsOf(quick) \cup IdsOf(long) = IdsOf(all)
    /\ Len(quick) + Len(long) = Len(all)

\* C11: in both clients, whatever the other filters and the sort, "quick"
\* keeps exactly the tasks of duration at most 15, no duration counting as 0,
\* and "long" exactly those of duration above 15: the two results are disjoint
\* and together hold every task "all" returns.
C11_DurationFilterSplits ==
    /\ \A all \in {C11_WebList("all")}, quick \in {C11_WebList("quick")},
          long \in {C11_WebList("long")} : C11_Splits(all, quick, long)
    /\ \A all \in {C11_MobileList("all")}, quick \in {C11_MobileList("quick")},
          long \in {C11_MobileList("long")} : C11_Splits(all, quick, long)

\* Both clients have a duration filter on, over a store with a task without
\* duration, one of 15 minutes and one of 16: the web list (quick) shows the
\* first two, the mobile list (long) the third.
C11_Witness ==
    /\ durationFilter = "quick"
    /\ mobileDurationFilter = "long"
    /\ Len(tasks) = 3
    /\ tasks[1].duration = None
    /\ tasks[2].duration = Some(15)
    /\ tasks[3].duration = Some(16)
    /\ IdsOf(C11_WebList(durationFilter)) = {1, 2}
    /\ IdsOf(C11_MobileList(mobileDurationFilter)) = {3}

----------------------------------------------------------------------------
(* The sort pickers of the two clients, over the same stores *)

\* An option of the mobile sort picker.
MobileSelectSort(value) ==
    /\ mobileSort' = value
    /\ mobileVisibleCount' = MOBILE_PAGE_SIZE
    /\ UNCHANGED <<dbVars, webVars, clientVars, statsVars, mobileFilter, mobileDurationFilter>>

SortNext ==
    \/ \E value \in SortTypes : SelectSort(value)
    \/ \E value \in SortTypes : MobileSelectSort(value)

SpecSort == ListInit /\ [][SortNext]_vars

----------------------------------------------------------------------------
(* C12: the eight sort orders *)

\* The lists the two clients show in the present state.
WebList ==
    sortedAndFilteredTasks(allTasks, showCompleted, showIncomplete, durationFilter,
                           importanceFilter, sort)

MobileList ==
    mobileSortedAndFilteredTasks(allTasks, mobileFilter, mobileDurationFilter, mobileSort)

\* The field a sort key orders by, a missing value read as 0.
C12_Key(task, sortKey) ==
    LET field == CASE sortKey \in {"latest", "inactive"} -> task.updatedAt
                   [] sortKey \in {"newest", "oldest"} -> task.createdAt
                   [] sortKey \in {"quickest", "longest"} -> task.duration
                   [] OTHER -> Some(task.historyCount)
    IN  IF field = None THEN 0 ELSE field[1]

C12_Descending == {"latest", "newest", "frequent", "longest"}

\* list holds each task of the input once, and its adjacent pairs are in the
\* order of the key.
C12_Ordered(list, input, sortKey) ==
    /\ Len(list) = Len(input)
    /\ \A i \in DOMAIN input : \E k \in DOMAIN list : list[k] = input[i]
    /\ \A k \in 1..(Len(list) - 1) :
          IF sortKey \in C12_Descending
          THEN C12_Key(list[k], sortKey) >= C12_Key(list[k + 1], sortKey)
          ELSE C12_Key(list[k], sortKey) <= C12_Key(list[k + 1], sortKey)

\* C12: under each of the eight sort keys the list of either client is a
\* permutation of its filtered tasks whose adjacent pairs respect the key:
\* latest / inactive by updatedAt descending / ascending, newest / oldest by
\* createdAt, frequent / unfrequent by historyCount, quickest / longest by
\* duration ascending / descending, a missing value compared as 0.
C12_SortedByKey ==
    /\ sort \in SortTypes
    /\ mobileSort \in SortTypes
    /\ C12_Ordered(WebList,
                   SelectSeq(allTasks, LAMBDA task :
                       /\ statusMatch(task, showCompleted, showIncomplete)
                       /\ durationMatch(task, durationFilter)
                       /\ importanceMatch(task, importanceFilter)),
                   sort)
    /\ C12_Ordered(MobileList,
                   SelectSeq(allTasks, LAMBDA task :
                       mobileMatch(task, mobileFilter, mobileDurationFilter)),
                   mobileSort)

\* Both clients have a sort selected by which the three tasks of the store,
\* one without duration and one never updated, are listed in another order
\* than the store's: web by longest, mobile by inactive.
C12_Witness ==
    /\ sort = "longest"
    /\ mobileSort = "inactive"
    /\ mobileFilter = "all"
    /\ Len(tasks) = 3
    /\ <<WebList[1]._id, WebList[2]._id, WebList[3]._id>> = <<3, 1, 2>>
    /\ WebList[3].duration = None
    /\ <<MobileList[1]._id, MobileList[2]._id, MobileList[3]._id>> = <<2, 1, 3>>
    /\ MobileList[1].updatedAt = None

----------------------------------------------------------------------------
(* C13: frequent and unfrequent *)

C13_Reverse(list) == [k \in DOMAIN list |-> list[Len(list) + 1 - k]]

C13_DistinctCounts(list) ==
    \A i, j \in DOMAIN list : i # j => list[i].historyCount # list[j].historyCount

\* C13: in either client, when the history counts of the listed tasks are
\* pairwise distinct, the list sorted by "unfrequent" is the reverse of the
\* list sorted by "frequent".
C13_UnfrequentReversesFrequent ==
    /\ \A frequent \in {sortedAndFilteredTasks(allTasks, showCompleted, showIncomplete,
                             durationFilter, importanceFilter, "frequent")} :
          C13_DistinctCounts(frequent) =>
              sortedAndFilteredTasks(allTasks, showCompleted, showIncomplete,
                  durationFilter, importanceFilter, "unfrequent") = C13_Reverse(frequent)
    /\ \A frequent \in {mobileSortedAndFilteredTasks(allTasks, mobileFilter,
                             mobileDurationFilter, "frequent")} :
          C13_DistinctCounts(frequent) =>
              mobileSortedAndFilteredTasks(allTasks, mobileFilter,
                  mobileDurationFilter, "unfrequent") = C13_Reverse(frequent)

\* The web client sorts by frequent and the mobile one by unfrequent a store of
\* three tasks changed 1, 0 and 2 times: the lists are <<3, 1, 2>> and
\* <<2, 1, 3>>, each the reverse of the other.
C13_Witness ==
    /\ sort = "frequent"
    /\ mobileSort = "unfrequent"
    /\ mobileFilter = "all"
    /\ Len(tasks) = 3
    /\ C13_DistinctCounts(allTasks)
    /\ <<allTasks[1].historyCount, allTasks[2].historyCount, allTasks[3].historyCount>>
          = <<1, 0, 2>>
    /\ <<WebList[1]._id, WebList[2]._id, WebList[3]._id>> = <<3, 1, 2>>
    /\ MobileList = C13_Reverse(WebList)

----------------------------------------------------------------------------
(* Pagination: the clients over stores longer than a page *)

\* The i-th task of a long store: every second one completed, durations and
\* update times that repeat, so that sorting moves tasks and leaves ties.
PagedTask(i) ==
    [_id |-> i, text |-> <<"a">>, description |-> None,
     isCompleted |-> (i % 2 = 0), isImportant |-> Some(i % 3 = 0),
     createdAt |-> Some(1), updatedAt |-> Some(1 + ((i * 7) % 5)),
     duration |-> Some(10 + (i % 10)), userId |-> None]

\* Store sizes: two mobile pages exactly; 1..MaxPages web pages exactly, and
\* one task more.
PagedStoreSizes ==
    {2 * MOBILE_PAGE_SIZE} \cup {k * PAGE_SIZE + d : k \in 1..MaxPages, d \in {0, 1}}

PagesInit ==
    /\ \E n \in PagedStoreSizes : tasks = [i \in 1..n |-> PagedTask(i)]
    /\ taskHistory = <<>>
    /\ users = SeededUsers
    /\ now = 5
    /\ result = [op |-> "none", error |-> None, value |-> None]
    /\ calls = NoCalls
    /\ requests = <<>>
    /\ AppMounted(NoParams)
    /\ \E filter \in {"all", "completed"} : MobileMounted(filter)

\* The web list as rendered, and whether more of it can be loaded.
visibleTasks == slice(WebList, visibleCount)

\* hasMore being true also when the whole list is already visible.
hasMore_AtEnd == visibleCount <= Len(WebList)

hasMore == visibleCount < Len(WebList)

mobileVisibleTasks == slice(MobileList, mobileVisibleCount)

mobileHasMore == mobileVisibleCount < Len(MobileList)

\* The load-more sentinel of the web list comes into view.
handleLoadMore ==
    /\ UNCHANGED <<dbVars, mobileVars, clientVars, statsVars, showCompleted, showIncomplete, durationFilter,
                   importanceFilter, sort>>
    /\ visibleCount' = IF hasMore THEN visibleCount + PAGE_SIZE ELSE visibleCount

\* The mobile FlatList reaches its end.
mobileHandleLoadMore ==
    /\ UNCHANGED <<dbVars, webVars, clientVars, statsVars, mobileFilter, mobileDurationFilter, mobileSort>>
    /\ mobileVisibleCount' = IF mobileHasMore THEN mobileVisibleCount + MOBILE_PAGE_SIZE
                              ELSE mobileVisibleCount

PagesNext ==
    \/ handleLoadMore
    \/ mobileHandleLoadMore
    \/ toggleShowCompleted
    \/ toggleShowIncomplete
    \/ \E value \in {"latest", "quickest"} : MobileSelectSort(value)

SpecPages == PagesInit /\ [][PagesNext]_vars

----------------------------------------------------------------------------
(* C14: pagination *)

\* shown is the first min(count, N) items of the list of length N.
C14_FirstItems(shown, list, count) ==
    /\ Len(shown) = (IF count < Len(list) THEN count ELSE Len(list))
    /\ \A k \in DOMAIN shown : shown[k] = list[k]

\* C14: in both clients the rendered list is the first min(visibleCount, N)
\* items of the filtered and sorted list of length N, and hasMore is true
\* exactly when visibleCount < N; a load-more event adds one page to
\* visibleCount, 50 on web and 9 on mobile, when hasMore is true, and leaves
\* it as it is otherwise.
C14_Pagination ==
    /\ [](/\ \A list \in {WebList}, shown \in {visibleTasks} :
               /\ C14_FirstItems(shown, list, visibleCount)
               /\ hasMore <=> visibleCount < Len(list)
          /\ \A list \in {MobileList}, shown \in {mobileVisibleTasks} :
               /\ C14_FirstItems(shown, list, mobileVisibleCount)
               /\ mobileHasMore <=> mobileVisibleCount < Len(list))
    /\ [][/\ handleLoadMore =>
               visibleCount' = (IF visibleCount < Len(WebList)
                                THEN visibleCount + 50 ELSE visibleCount)
          /\ mobileHandleLoadMore =>
               mobileVisibleCount' = (IF mobileVisibleCount < Len(MobileList)
                                      THEN mobileVisibleCount + 9
                                      ELSE mobileVisibleCount)]_vars

\* The web client has loaded one more page of a list of 51 tasks and shows
\* them all, nothing more to load; the mobile client has loaded one more page
\* of its list of the 25 completed tasks and shows 18, more to load.
C14_Witness ==
    /\ Len(tasks) = 51
    /\ visibleCount = 100
    /\ Len(WebList) = 51
    /\ Len(visibleTasks) = 51
    /\ ~hasMore
    /\ mobileFilter = "completed"
    /\ mobileVisibleCount = 18
    /\ Len(MobileList) = 25
    /\ Len(mobileVisibleTasks) = 18
    /\ mobileHasMore


----------------------------------------------------------------------------
(* The statistics tab of the web client over stores of owned tasks *)

\* Kinds of task, with their owner: a first-schema task never stamped; a
\* seeded task never updated; a task toggled twice; a task of the second
\* user; a task without owner.
StatsProfiles ==
    { [isCompleted |-> TRUE, isImportant |-> None, duration |-> None,
       createdAt |-> None, updatedAt |-> None, changes |-> 0, userId |-> Some("u1")],
      [isCompleted |-> FALSE, isImportant |-> Some(TRUE), duration |-> Some(15),
       createdAt |-> Some(2), updatedAt |-> Some(2), changes |-> 0, userId |-> Some("u1")],
      [isCompleted |-> FALSE, isImportant |-> Some(FALSE), duration |-> Some(16),
       createdAt |-> Some(1), updatedAt |-> Some(4), changes |-> 2, userId |-> Some("u1")],
      [isCompleted |-> TRUE, isImportant |-> Some(TRUE), duration |-> Some(16),
       createdAt |-> Some(2), updatedAt |-> Some(3), changes |-> 1, userId |-> Some("u2")],
      [isCompleted |-> FALSE, isImportant |-> Some(TRUE), duration |-> Some(15),
       createdAt |-> Some(1), updatedAt |-> Some(2), changes |-> 1, userId |-> None] }

StatsStores == SeqsUpTo(StatsProfiles, MaxListTasks)

\* Three users; the third owns no task in any store.
StatsUsers ==
    <<SeededUser("u1", <<"B", "a">>), SeededUser("u2", <<"a">>),
      SeededUser("u3", <<"b", "a">>)>>

\* The values of the "users" parameter of the URL, split at the commas.
UsersParams == {None, Some(<<"u2", "">>)}

StatsInit ==
    /\ \E profiles \in StatsStores :
          /\ tasks = [i \in DOMAIN profiles |->
                         [ProfileTask(i, profiles[i]) EXCEPT !.userId = profiles[i].userId]]
          /\ taskHistory = ProfileHistory(profiles, 1)
    /\ users = StatsUsers
    /\ now = 5
    /\ result = [op |-> "none", error |-> None, value |-> None]
    /\ calls = NoCalls
    /\ requests = <<>>
    /\ \E usersParam \in UsersParams :
          AppMounted([NoParams EXCEPT !.users = usersParam])
    /\ MobileMounted("all")

\* The click that keeps the direction when the column changes.
handleStatsSort_KeepsDirection(column) ==
    /\ UNCHANGED <<dbVars, webVars, mobileVars, clientVars, selectedUsers>>
    /\ IF statsSortColumn = column
       THEN /\ statsSortDirection' = (IF statsSortDirection = "asc" THEN "desc" ELSE "asc")
            /\ statsSortColumn' = statsSortColumn
       ELSE /\ statsSortColumn' = column
            /\ statsSortDirection' = statsSortDirection

\* A click on the header of a column of the statistics table.
handleStatsSort(column) ==
    /\ UNCHANGED <<dbVars, webVars, mobileVars, clientVars, selectedUsers>>
    /\ IF statsSortColumn = column
       THEN /\ statsSortDirection' = (IF statsSortDirection = "asc" THEN "desc" ELSE "asc")
            /\ statsSortColumn' = statsSortColumn
       ELSE /\ statsSortColumn' = column
            /\ statsSortDirection' = "asc"

\* A click on the picture of a user: selects the user, or deselects.
ClickUser(user) ==
    /\ selectedUsers' = (IF user._id \in selectedUsers THEN selectedUsers \ {user._id}
                         ELSE selectedUsers \cup {user._id})
    /\ visibleCount' = PAGE_SIZE
    /\ UNCHANGED <<dbVars, mobileVars, clientVars, showCompleted, showIncomplete, durationFilter,
                   importanceFilter, sort, statsSortColumn, statsSortDirection>>

StatsNext ==
    \/ \E column \in StatsSortColumns : handleStatsSort(column)
    \/ \E i \in DOMAIN users : ClickUser(users[i])

SpecStats == StatsInit /\ [][StatsNext]_vars

\* The enriched list the web client receives: of the selected users, if any.
allTasksQuery ==
    listAllWithHistoryCount(Db, None,
        IF Cardinality(selectedUsers) > 0 THEN Some(ArrayFrom(selectedUsers)) ELSE None)

\* The statistics table, its rows after the user filter, and the totals row.
StatsTable == userStats(users, allTasksQuery, statsSortColumn, statsSortDirection)

FilteredStatsTable == filteredUserStats(StatsTable, selectedUsers)

TotalsRow == totals(FilteredStatsTable)


----------------------------------------------------------------------------
(* C15: the statistics row of a user *)

\* The row of the statistics table that belongs to this user.
RowOf(user) ==
    LET table == StatsTable
    IN  table[CHOOSE i \in DOMAIN table : table[i].user = user]

\* The sum of the historyCount of the tasks at these places of a list.
RECURSIVE C15_Changes(_, _)
C15_Changes(list, places) ==
    IF places = {} THEN 0
    ELSE LET i == CHOOSE j \in places : TRUE
         IN  list[i].historyCount + C15_Changes(list, places \ {i})

\* The row is the count, sum and maximum the columns are named after, taken
\* over the tasks of the enriched list whose owner is the user.
C15_RowCounts(row, user, list) ==
    LET owned == {i \in DOMAIN list : list[i].userId = Some(user._id)}
        stamps == {list[i].updatedAt[1] : i \in {j \in owned : list[j].updatedAt # None}}
    IN  /\ row.user = user
        /\ row.completed = Cardinality({i \in owned : list[i].isCompleted})
        /\ row.incomplete = Cardinality({i \in owned : ~list[i].isCompleted})
        /\ row.important = Cardinality({i \in owned : list[i].isImportant = Some(TRUE)})
        /\ row.changes = C15_Changes(list, owned)
        /\ row.inactive = Cardinality({i \in owned :
                               \/ list[i].updatedAt = None
                               \/ list[i].updatedAt = list[i].createdAt})
        /\ row.short = Cardinality({i \in owned : OrElse(list[i].duration, 0) <= 15})
        /\ row.long = Cardinality({i \in owned : OrElse(list[i].duration, 0) > 15})
        /\ owned = {} => row.lastActive = None
        /\ stamps # {} => /\ row.lastActive # None
                          /\ row.lastActive[1] \in stamps
                          /\ \A t \in stamps : t <= row.lastActive[1]
        /\ row.completed + row.incomplete = Cardinality(owned)
        /\ row.short + row.long = Cardinality(owned)

\* C15: for every user, the statistics row counts the completed, incomplete,
\* important, inactive, short and long tasks among the enriched tasks the user
\* owns, sums their historyCount, and has their latest updatedAt as
\* lastActive, undefined if the user owns none; completed + incomplete =
\* short + long = the number of the user's tasks.
C15_UserStatsRow ==
    \A list \in {allTasksQuery}, table \in {StatsTable} :
        /\ Len(table) = Len(users)
        /\ \A k \in DOMAIN users :
              \E i \in DOMAIN table : C15_RowCounts(table[i], users[k], list)

\* The first user owns a task never stamped, one never updated and one
\* toggled twice; the third user owns nothing.
C15_Witness ==
    /\ Len(tasks) = 3
    /\ selectedUsers = {}
    /\ \E row \in {RowOf(users[1])} :
          /\ row.completed = 1 /\ row.incomplete = 2 /\ row.important = 1
          /\ row.changes = 2 /\ row.inactive = 2 /\ row.short = 2 /\ row.long = 1
          /\ row.lastActive = Some(4)
    /\ RowOf(users[3]).lastActive = None


----------------------------------------------------------------------------
(* C16: rows without a sort value *)

\* The row has no value in the column the table is sorted by.
C16_Missing(row) == statsSortColumn = "lastActive" /\ row.lastActive = None

\* C16: in the statistics table, every row whose value in the sort column is
\* missing or undefined stands after every row that has a value there, in
\* the ascending as in the descending direction.
C16_UndefinedLast ==
    \A table \in {StatsTable} :
        \A i, j \in DOMAIN table :
            C16_Missing(table[i]) /\ ~C16_Missing(table[j]) => j < i


----------------------------------------------------------------------------
(* C17: the sort state of the statistics table *)

C17_Opposite(direction) == IF direction = "asc" THEN "desc" ELSE "asc"

\* C17: the statistics table starts sorted by lastActive, descending; a click
\* on a column header makes that column the sort column, ascending if it was
\* not the sort column before and in the opposite of the previous direction
\* if it was; nothing else changes the sort state.
C17_SortClicks ==
    /\ statsSortColumn = "lastActive" /\ statsSortDirection = "desc"
    /\ [][/\ \A column \in StatsSortColumns :
               handleStatsSort(column) =>
                   /\ statsSortColumn' = column
                   /\ statsSortDirection' =
                         (IF column # statsSortColumn THEN "asc"
                          ELSE C17_Opposite(statsSortDirection))
          /\ (\A column \in StatsSortColumns : ~handleStatsSort(column)) =>
                 UNCHANGED <<statsSortColumn, statsSortDirection>>]_vars

\* The column "user" was clicked twice in a row: it is sorted descending.
C17_Witness ==
    /\ statsSortColumn = "user"
    /\ statsSortDirection = "desc"


----------------------------------------------------------------------------
(* C18: the totals row of the statistics table *)

\* The rows of the table the tab shows: of all users, or of the selected ones.
C18_Shown(table) ==
    {i \in DOMAIN table : selectedUsers = {} \/ table[i].user._id \in selectedUsers}

\* The sum of a column over these rows of the table.
RECURSIVE C18_Sum(_, _, _)
C18_Sum(table, column, places) ==
    IF places = {} THEN 0
    ELSE LET i == CHOOSE j \in places : TRUE
         IN  table[i][column] + C18_Sum(table, column, places \ {i})

\* C18: in each numeric column the totals row shows the sum of the column
\* over the rows of all users if no user is selected, and over the rows of
\* the selected users otherwise.
C18_TotalsAreSums ==
    \A table \in {StatsTable} :
        \A row \in {totals(filteredUserStats(table, selectedUsers))} :
            \A column \in NumericColumns :
                row[column] = C18_Sum(table, column, C18_Shown(table))

\* The first user is selected and owns two of the three tasks; the third
\* task is of the second user.
C18_Witness ==
    /\ selectedUsers = {"u1"}
    /\ Len(tasks) = 3
    /\ \E i \in DOMAIN tasks : tasks[i].userId = Some("u2")
    /\ Len(FilteredStatsTable) = 1
    /\ TotalsRow.changes = 2
    /\ TotalsRow.long = 1
    /\ TotalsRow.short = 1


----------------------------------------------------------------------------
(* The history of a task: getTaskHistory and backfillTaskHistory *)

\* Array order reversed.
Reverse(list) == [k \in DOMAIN list |-> list[Len(list) + 1 - k]]

\* getTaskHistory: the documents of the index by_task for this task, in
\* descending order of the index, which after taskId orders by creation.
getTaskHistory(db, taskId) == Reverse(HistoryByTask(db.taskHistory, taskId))

\* The fewest history items backfillTaskHistory draws for a task.
MinBackfillItems == 5

\* January 1st of the current year, as an instant of the model's clock.
YearStart == 1

\* backfillTaskHistory from the task at place i on. draws[i] holds what
\* Math.random gave for that task: the change type and value, and the
\* timestamp of each of its items.
RECURSIVE backfillLoop(_, _, _, _, _)
backfillLoop(db, taskList, draws, i, counts) ==
    IF i > Len(taskList)
    THEN Return("backfillTaskHistory", db,
                [tasksBackfilled |-> counts.tasks, totalHistoryItems |-> counts.items,
                 totalTasks |-> Len(taskList)])
    ELSE IF (i - 1) % 4 = 3 THEN backfillLoop(db, taskList, draws, i + 1, counts)
    ELSE LET items == [j \in DOMAIN draws[i].stamps |->
                          HistoryEntry(taskList[i]._id, Some(draws[i].changeType),
                                       draws[i].changedTo, draws[i].stamps[j])]
         IN  backfillLoop([db EXCEPT !.taskHistory = db.taskHistory \o items],
                          taskList, draws, i + 1,
                          [tasks |-> counts.tasks + 1,
                           items |-> counts.items + Len(items)])

backfillTaskHistory(db, draws) ==
    backfillLoop(db, db.tasks, draws, 1, [tasks |-> 0, items |-> 0])

\* What Math.random may give for one task, out of all it can: the fewest
\* items, one change type and value for them, and timestamps that are all
\* the start of the year, all the present, or one of the two at either end.
BackfillDraws(present) ==
    { [changeType |-> changeType, changedTo |-> changedTo, stamps |-> stamps] :
        changeType \in {"completion", "importance"}, changedTo \in BOOLEAN,
        stamps \in { [j \in 1..MinBackfillItems |-> YearStart],
                     [j \in 1..MinBackfillItems |-> present],
                     [j \in 1..MinBackfillItems |-> IF j = 1 THEN YearStart ELSE present],
                     [j \in 1..MinBackfillItems |-> IF j = 1 THEN present ELSE YearStart] } }

HistoryInit ==
    /\ tasks = SeededTasks(FALSE, TRUE, 2)
    /\ taskHistory = <<>>
    /\ users = SeededUsers
    /\ now = 2
    /\ result = [op |-> "none", error |-> None, value |-> None]
    /\ calls = NoCalls
    /\ requests = <<>>
    /\ AppMounted(NoParams)
    /\ MobileMounted("all")

\* The backfill runs on a store that toggles have written at most MaxHistory
\* history documents to.
BackfillTaskHistoryOf(choices) ==
    /\ Len(taskHistory) <= MaxHistory
    /\ \E draws \in [DOMAIN tasks -> choices] :
          \E r \in {backfillTaskHistory(Db, draws)} :
              /\ tasks' = r.tasks
              /\ taskHistory' = r.taskHistory
              /\ users' = r.users
              /\ result' = r.result
    /\ UNCHANGED <<now, webVars, mobileVars, clientVars, statsVars, calls>>

BackfillTaskHistory == BackfillTaskHistoryOf(BackfillDraws(now))

HistoryNext ==
    \/ Tick
    \/ \E id \in TaskIds : ToggleCompleted(id)
    \/ \E id \in TaskIds : ToggleImportant(id)
    \/ BackfillTaskHistory

SpecHistory == HistoryInit /\ [][HistoryNext]_vars

----------------------------------------------------------------------------
(* C19: the history of one task *)

\* C19: in every store, also after backfillTaskHistory, getTaskHistory of a
\* task returns each history document of that task once and no other
\* document, and every document in it is at least as recent (changedAt) as
\* the one after it.
C19_HistoryNewestFirst ==
    \A id \in TaskIds :
        \A list \in {getTaskHistory(Db, id)} :
            /\ Len(list) = Cardinality({k \in DOMAIN taskHistory : taskHistory[k].taskId = id})
            /\ \A i \in DOMAIN list :
                  /\ list[i].taskId = id
                  /\ \E k \in DOMAIN taskHistory : taskHistory[k] = list[i]
            /\ \A i \in DOMAIN list :
                  i < Len(list) => list[i].changedAt >= list[i + 1].changedAt


----------------------------------------------------------------------------
(* Toggle mutations statement by statement, interleaved with queries *)

ToggleOps == {"toggleCompleted", "toggleImportant"}

\* newStatus: !task.isCompleted, !task.isImportant
ToggleStatus(op, task) ==
    IF op = "toggleCompleted" THEN ~task.isCompleted ELSE ~Truthy(task.isImportant)

\* The fields of ctx.db.patch
TogglePatch(op, newStatus, at) ==
    IF op = "toggleCompleted"
    THEN [isCompleted |-> newStatus, updatedAt |-> Some(at)]
    ELSE [isImportant |-> Some(newStatus), updatedAt |-> Some(at)]

\* The document of ctx.db.insert("taskHistory", ...)
ToggleEntry(op, id, newStatus, at) ==
    HistoryEntry(id, Some(IF op = "toggleCompleted" THEN "completion" ELSE "importance"),
                 newStatus, at)

\* The writes of a mutation, applied to the database in their order.
RECURSIVE ApplyWrites(_, _)
ApplyWrites(db, writes) ==
    IF writes = <<>> THEN db
    ELSE LET w == Head(writes)
             next == IF w.kind = "patch"
                     THEN [db EXCEPT !.tasks = DbPatch(db.tasks, w.id, w.fields)]
                     ELSE [db EXCEPT !.taskHistory = Append(db.taskHistory, w.doc)]
         IN  ApplyWrites(next, Tail(writes))

CallsInit ==
    /\ \E n \in {1, 2} : tasks = SeededTasks(FALSE, TRUE, n)
    /\ taskHistory = <<>>
    /\ users = SeededUsers
    /\ now = 2
    /\ result = [op |-> "none", error |-> None, value |-> None]
    /\ calls = NoCalls
    /\ requests = <<>>
    /\ AppMounted(NoParams)
    /\ MobileMounted("all")

\* const task = await ctx.db.get(args.id); if (!task) throw ...
\* The model keeps taskHistory within MaxHistory.
Begin(slot, op, id) ==
    /\ calls[slot].pc = "idle"
    /\ Len(taskHistory) + Cardinality({s \in Slots : calls[s].pc # "idle"}) < MaxHistory
    /\ \E task \in {DbGet(tasks, id)} :
          IF task = None
          THEN /\ result' = Throw(op, Db, "Task not found").result
               /\ calls' = calls
          ELSE /\ calls' = [calls EXCEPT ![slot] =
                              [Idle EXCEPT !.pc = "read", !.op = op, !.id = id,
                                           !.task = task]]
               /\ result' = result
    /\ UNCHANGED <<tasks, taskHistory, users, now, webVars, mobileVars, clientVars, statsVars>>

\* ctx.db.patch written through to the table before the mutation commits.
Patch_WriteThrough(slot) ==
    /\ calls[slot].pc = "read"
    /\ \E call \in {calls[slot]} :
       \E newStatus \in {ToggleStatus(call.op, call.task[1])} :
          /\ calls' = [calls EXCEPT ![slot] =
                         [call EXCEPT !.pc = "patched", !.at = now,
                                      !.newStatus = newStatus,
                                      !.writes = <<[kind |-> "patch", id |-> call.id,
                                                    fields |-> TogglePatch(call.op, newStatus, now)]>>]]
          /\ tasks' = DbPatch(tasks, call.id, TogglePatch(call.op, newStatus, now))
    /\ UNCHANGED <<taskHistory, users, now, result, webVars, mobileVars, clientVars, statsVars>>

\* const now = Date.now(); const newStatus = ...; await ctx.db.patch(...)
Patch(slot) ==
    /\ calls[slot].pc = "read"
    /\ \E call \in {calls[slot]} :
       \E newStatus \in {ToggleStatus(call.op, call.task[1])} :
          calls' = [calls EXCEPT ![slot] =
                      [call EXCEPT !.pc = "patched", !.at = now,
                                   !.newStatus = newStatus,
                                   !.writes = <<[kind |-> "patch", id |-> call.id,
                                                 fields |-> TogglePatch(call.op, newStatus, now)]>>]]
    /\ UNCHANGED <<tasks, taskHistory, users, now, result, webVars, mobileVars, clientVars, statsVars>>

\* await ctx.db.insert("taskHistory", ...)
Insert(slot) ==
    /\ calls[slot].pc = "patched"
    /\ \E call \in {calls[slot]} :
          calls' = [calls EXCEPT ![slot] =
                      [call EXCEPT !.pc = "inserted",
                                   !.writes = Append(call.writes,
                                       [kind |-> "insert",
                                        doc |-> ToggleEntry(call.op, call.id,
                                                            call.newStatus, call.at)])]]
    /\ UNCHANGED <<tasks, taskHistory, users, now, result, webVars, mobileVars, clientVars, statsVars>>

\* return await ctx.db.get(args.id), and the end of the mutation: its writes
\* are applied together if the task it read is still as it read it; if not,
\* the mutation runs again from its first statement.
Commit(slot) ==
    /\ calls[slot].pc = "inserted"
    /\ \E call \in {calls[slot]} :
          IF DbGet(tasks, call.id) = call.task
          THEN \E after \in {ApplyWrites(Db, call.writes)} :
                  /\ tasks' = after.tasks
                  /\ taskHistory' = after.taskHistory
                  /\ result' = Return(call.op, after, DbGet(after.tasks, call.id)[1]).result
                  /\ calls' = [calls EXCEPT ![slot] = Idle]
          ELSE /\ calls' = [calls EXCEPT ![slot] =
                              [Idle EXCEPT !.pc = "read", !.op = call.op, !.id = call.id,
                                           !.task = DbGet(tasks, call.id)]]
               /\ UNCHANGED <<tasks, taskHistory, result>>
    /\ UNCHANGED <<users, now, webVars, mobileVars, clientVars, statsVars>>

\* The query listAllWithHistoryCount without arguments.
QueryList ==
    /\ result' = Return("listAllWithHistoryCount", Db,
                        listAllWithHistoryCount(Db, None, None)).result
    /\ UNCHANGED <<tasks, taskHistory, users, now, calls, webVars, mobileVars, clientVars, statsVars>>

\* The query getTaskHistory.
GetTaskHistory(taskId) ==
    /\ result' = Return("getTaskHistory", Db, getTaskHistory(Db, taskId)).result
    /\ UNCHANGED <<tasks, taskHistory, users, now, calls, webVars, mobileVars, clientVars, statsVars>>

CallsNext ==
    \/ Tick
    \/ \E slot \in Slots, op \in ToggleOps, id \in TaskIds : Begin(slot, op, id)
    \/ \E slot \in Slots : Patch(slot)
    \/ \E slot \in Slots : Insert(slot)
    \/ \E slot \in Slots : Commit(slot)
    \/ QueryList
    \/ \E id \in TaskIds : GetTaskHistory(id)

SpecCalls == CallsInit /\ [][CallsNext]_vars


----------------------------------------------------------------------------
(* C20: the flip and its history entry become visible together *)

\* The task as the seed left it.
C20_Seeded(id) == TaskOf(SeededTasks(FALSE, TRUE, 2), id)

\* How many of the two flags of an enriched task differ from the seed.
C20_Flips(task) ==
    (IF task.isCompleted # C20_Seeded(task._id).isCompleted THEN 1 ELSE 0)
    + (IF Truthy(task.isImportant) # Truthy(C20_Seeded(task._id).isImportant)
       THEN 1 ELSE 0)

\* What listAllWithHistoryCount returned shows, for each task, as many
\* flips as history entries, up to pairs of flips that cancel.
C20_Observed ==
    result.op = "listAllWithHistoryCount" =>
        \A i \in DOMAIN result.value[1] :
            \E task \in {result.value[1][i]} :
                /\ C20_Flips(task) % 2 = task.historyCount % 2
                /\ task.historyCount = 0 =>
                       task.updatedAt = C20_Seeded(task._id).updatedAt
                /\ task.historyCount > 0 =>
                       \E k \in DOMAIN taskHistory :
                           /\ taskHistory[k].taskId = task._id
                           /\ task.updatedAt = Some(taskHistory[k].changedAt)

\* One step of the tables the queries read: a task changes exactly if its
\* history does, and then by one entry that tells the change.
C20_Together(id) ==
    \E before \in {TaskOf(tasks, id)}, after \in {TaskOf(tasks', id)},
       old \in {HistoryByTask(taskHistory, id)}, new \in {HistoryByTask(taskHistory', id)} :
        /\ (before # after) <=> (new # old)
        /\ new # old =>
              \E entry \in {new[Len(new)]} :
                  /\ new = Append(old, entry)
                  /\ after.updatedAt = Some(entry.changedAt)
                  /\ IF entry.changeType = Some("completion")
                     THEN /\ after.isCompleted = entry.changedTo
                          /\ before.isCompleted # entry.changedTo
                          /\ after.isImportant = before.isImportant
                     ELSE /\ after.isImportant = Some(entry.changedTo)
                          /\ Truthy(before.isImportant) # entry.changedTo
                          /\ after.isCompleted = before.isCompleted

\* C20: while toggle invocations and queries interleave, the tables the
\* queries read never hold the flip of an invocation without its history
\* entry nor the entry without the flip: both appear in the same step, and
\* every list a query returned shows flips and entries that agree.
C20_NoTornToggle ==
    /\ []C20_Observed
    /\ [][\A id \in TaskIds : Exists(id) => C20_Together(id)]_vars

\* The list query ran after one invocation committed for the seeded task
\* and while another, for the same task, had patched but not yet inserted.
C20_Witness ==
    /\ result.op = "listAllWithHistoryCount"
    /\ result.value[1][1].historyCount = 1
    /\ result.value[1][1].isCompleted
    /\ Len(taskHistory) = 1
    /\ \E slot \in Slots :
          /\ calls[slot].pc = "patched"
          /\ calls[slot].id = "t1"
          /\ calls[slot].op = "toggleCompleted"
          /\ calls[slot].newStatus = FALSE


----------------------------------------------------------------------------
(* Bulk mutations, also when a step of their loop fails *)

\* The end of a mutation whose handler threw, keeping what it had written.
Abort_KeepsWrites(op, db, view, step) ==
    [tasks |-> view.tasks, taskHistory |-> view.taskHistory, users |-> view.users,
     result |-> [op |-> op, error |-> Some(<<"step", step>>), value |-> None]]

\* The end of a mutation whose handler threw at a step of its loop: db is the
\* database the mutation started from, view what it had written until then.
\* A mutation is one transaction: its writes are dropped and the call rejects.
Abort(op, db, view, step) ==
    [tasks |-> db.tasks, taskHistory |-> db.taskHistory, users |-> db.users,
     result |-> [op |-> op, error |-> Some(<<"step", step>>), value |-> None]]

\* toggleAll whose k-th iteration throws.
toggleAllFailing(db, ids, k) ==
    Abort("toggleAll", db, toggleAllLoop(db, SubSeq(ids, 1, k - 1), 1), k)

\* setAllCompleted whose k-th iteration throws.
setAllCompletedFailing(db, ids, value, k) ==
    Abort("setAllCompleted", db, setAllCompletedLoop(db, SubSeq(ids, 1, k - 1), value, 1), k)

ToggleAllFails(ids, k) ==
    /\ k \in DOMAIN ids
    /\ Fits(toggleAllLoop(Db, SubSeq(ids, 1, k - 1), 1))
    /\ \E r \in {toggleAllFailing(Db, ids, k)} :
          /\ tasks' = r.tasks
          /\ taskHistory' = r.taskHistory
          /\ users' = r.users
          /\ result' = r.result
    /\ UNCHANGED <<now, webVars, mobileVars, clientVars, statsVars, calls>>

SetAllCompletedFails(ids, value, k) ==
    /\ k \in DOMAIN ids
    /\ Fits(setAllCompletedLoop(Db, SubSeq(ids, 1, k - 1), value, 1))
    /\ \E r \in {setAllCompletedFailing(Db, ids, value, k)} :
          /\ tasks' = r.tasks
          /\ taskHistory' = r.taskHistory
          /\ users' = r.users
          /\ result' = r.result
    /\ UNCHANGED <<now, webVars, mobileVars, clientVars, statsVars, calls>>

BulkNext ==
    \/ Tick
    \/ \E id \in TaskIds : ToggleCompleted(id)
    \/ \E id \in TaskIds : ToggleImportant(id)
    \/ \E ids \in IdLists : ToggleAll(ids)
    \/ \E ids \in IdLists, value \in BOOLEAN : SetAllCompleted(ids, value)
    \/ \E ids \in IdLists, k \in 1..MaxIds : ToggleAllFails(ids, k)
    \/ \E ids \in IdLists, value \in BOOLEAN, k \in 1..MaxIds :
          SetAllCompletedFails(ids, value, k)

SpecBulk == Init /\ [][BulkNext]_vars


----------------------------------------------------------------------------
(* C21: bulk mutations and a failing step *)

\* The history documents a step has appended, and the tasks they are of.
C21_Added == SubSeq(taskHistory', Len(taskHistory) + 1, Len(taskHistory'))

C21_TaskIds(entries) == [i \in DOMAIN entries |-> entries[i].taskId]

\* The ids at the places of a list that are in a set, in list order.
RECURSIVE C21_AtPlaces(_, _, _)
C21_AtPlaces(ids, places, j) ==
    IF j > Len(ids) THEN <<>>
    ELSE (IF j \in places THEN <<ids[j]>> ELSE <<>>) \o C21_AtPlaces(ids, places, j + 1)

\* A call that returns has written history for the ids in the order of the list.
C21_InListOrder ==
    /\ \A ids \in IdLists :
          result'.op = "toggleAll" /\ result'.error = None /\ ToggleAll(ids) =>
              C21_TaskIds(C21_Added)
                  = C21_AtPlaces(ids, {j \in DOMAIN ids : Exists(ids[j])}, 1)
    /\ \A ids \in IdLists, value \in BOOLEAN :
          result'.op = "setAllCompleted" /\ result'.error = None
          /\ SetAllCompleted(ids, value) =>
              C21_TaskIds(C21_Added)
                  = C21_AtPlaces(ids, {j \in DOMAIN ids :
                                         /\ Exists(ids[j])
                                         /\ TaskOf(tasks, ids[j]).isCompleted # value
                                         /\ \A i \in 1..(j - 1) : ids[i] # ids[j]}, 1)

----------------------------------------------------------------------------
(* The toggling markers of the two clients *)

\* The kind of marker the mobile TaskList sets for a mutation.
TypeOf(op) == IF op = "toggleCompleted" THEN "completion" ELSE "importance"

\* A call of a toggle mutation that a client awaits: sent, or answered by the
\* backend ("fulfilled", "rejected") with the continuation still to run.
Request(client, op, id) ==
    [client |-> client, op |-> op, id |-> id, outcome |-> "sent"]

Without(list, i) == SubSeq(list, 1, i - 1) \o SubSeq(list, i + 1, Len(list))

\* Web: the controls of a task take no click while one of the sets holds it.
WebEnabled(id) == id \notin togglingTasks /\ id \notin togglingImportance

\* handleToggle of App up to its await, for a task the list shows.
handleToggle(id) ==
    /\ Exists(id)
    /\ WebEnabled(id)
    /\ togglingTasks' = togglingTasks \cup {id}
    /\ requests' = Append(requests, Request("web", "toggleCompleted", id))
    /\ UNCHANGED <<tasks, taskHistory, users, now, result, calls, webVars, mobileVars,
                   statsVars, togglingImportance, togglingTaskId, togglingType,
                   searchInput, debouncedSearchQuery, timers, sinceInput>>

\* handleToggleImportant of App up to its await.
handleToggleImportant(id) ==
    /\ Exists(id)
    /\ WebEnabled(id)
    /\ togglingImportance' = togglingImportance \cup {id}
    /\ requests' = Append(requests, Request("web", "toggleImportant", id))
    /\ UNCHANGED <<tasks, taskHistory, users, now, result, calls, webVars, mobileVars,
                   statsVars, togglingTasks, togglingTaskId, togglingType,
                   searchInput, debouncedSearchQuery, timers, sinceInput>>

\* Mobile: a button of the detail view is disabled while the marker names the
\* task with the other kind.
MobileEnabled(op, id) ==
    ~(togglingTaskId = Some(id) /\ togglingType # Some(TypeOf(op)))

\* handleToggleComplete and handleToggleImportant of TaskList up to their
\* await, pressed in the detail view of a task of the list.
mobileHandleToggle(op, id) ==
    /\ Exists(id)
    /\ MobileEnabled(op, id)
    /\ Cardinality({i \in DOMAIN requests : requests[i].client = "mobile"}) < MaxCalls
    /\ togglingTaskId' = Some(id)
    /\ togglingType' = Some(TypeOf(op))
    /\ requests' = Append(requests, Request("mobile", op, id))
    /\ UNCHANGED <<tasks, taskHistory, users, now, result, calls, webVars, mobileVars,
                   statsVars, togglingTasks, togglingImportance,
                   searchInput, debouncedSearchQuery, timers, sinceInput>>

\* The backend runs the mutation of a call and answers it.
RunRequest(i) ==
    /\ i \in DOMAIN requests
    /\ requests[i].outcome = "sent"
    /\ \E r \in {IF requests[i].op = "toggleCompleted"
                 THEN toggleCompleted(Db, requests[i].id)
                 ELSE toggleImportant(Db, requests[i].id)} :
          /\ Fits(r)
          /\ tasks' = r.tasks
          /\ taskHistory' = r.taskHistory
          /\ users' = r.users
          /\ result' = r.result
          /\ requests' = [requests EXCEPT ![i].outcome =
                             IF r.result.error = None THEN "fulfilled" ELSE "rejected"]
    /\ UNCHANGED <<now, calls, webVars, mobileVars, statsVars, togglingTasks,
                   togglingImportance, togglingTaskId, togglingType,
                   searchInput, debouncedSearchQuery, timers, sinceInput>>

\* The same continuation with the cleanup after the toast, outside a finally.
Settle_CleanupAfterToast(i) ==
    /\ i \in DOMAIN requests
    /\ requests[i].outcome # "sent"
    /\ requests' = Without(requests, i)
    /\ \E call \in {requests[i]} :
          IF call.client = "web"
          THEN /\ togglingTasks' =
                     IF call.op = "toggleCompleted" /\ call.outcome = "fulfilled"
                     THEN togglingTasks \ {call.id} ELSE togglingTasks
               /\ togglingImportance' =
                     IF call.op = "toggleImportant" /\ call.outcome = "fulfilled"
                     THEN togglingImportance \ {call.id} ELSE togglingImportance
               /\ UNCHANGED <<togglingTaskId, togglingType>>
          ELSE /\ togglingTaskId' = None
               /\ togglingType' = None
               /\ UNCHANGED <<togglingTasks, togglingImportance>>
    /\ UNCHANGED <<tasks, taskHistory, users, now, result, calls, webVars, mobileVars,
                   statsVars, searchInput, debouncedSearchQuery, timers, sinceInput>>

\* The continuation of a handler after its await: the call has settled, and
\* the finally block runs whether it was fulfilled or rejected.
Settle(i) ==
    /\ i \in DOMAIN requests
    /\ requests[i].outcome # "sent"
    /\ requests' = Without(requests, i)
    /\ \E call \in {requests[i]} :
          IF call.client = "web"
          THEN /\ togglingTasks' =
                     IF call.op = "toggleCompleted"
                     THEN togglingTasks \ {call.id} ELSE togglingTasks
               /\ togglingImportance' =
                     IF call.op = "toggleImportant"
                     THEN togglingImportance \ {call.id} ELSE togglingImportance
               /\ UNCHANGED <<togglingTaskId, togglingType>>
          ELSE /\ togglingTaskId' = None
               /\ togglingType' = None
               /\ UNCHANGED <<togglingTasks, togglingImportance>>
    /\ UNCHANGED <<tasks, taskHistory, users, now, result, calls, webVars, mobileVars,
                   statsVars, searchInput, debouncedSearchQuery, timers, sinceInput>>

\* The continuation of the web client's call of op for the task id.
SettleWeb(op, id) ==
    \E i \in DOMAIN requests :
        /\ requests[i].client = "web" /\ requests[i].op = op /\ requests[i].id = id
        /\ Settle(i)

WebTogglingNext ==
    \/ \E id \in TaskIds : handleToggle(id)
    \/ \E id \in TaskIds : handleToggleImportant(id)
    \/ \E i \in DOMAIN requests : RunRequest(i)
    \/ \E i \in DOMAIN requests : Settle(i)
    \/ TruncateAllTables

\* A continuation that can run does run: the event loop starves no callback.
SpecWebToggling ==
    /\ Init
    /\ [][WebTogglingNext]_vars
    /\ \A op \in ToggleOps, id \in TaskIds : WF_vars(SettleWeb(op, id))

MobileTogglingNext ==
    \/ \E op \in ToggleOps, id \in TaskIds : mobileHandleToggle(op, id)
    \/ \E i \in DOMAIN requests : RunRequest(i)
    \/ \E i \in DOMAIN requests : Settle(i)
    \/ TruncateAllTables

SpecMobileToggling == Init /\ [][MobileTogglingNext]_vars

----------------------------------------------------------------------------
(* C22: the web client's toggling sets *)

C22_Pending(client, op, id) ==
    \E i \in DOMAIN requests :
        requests[i].client = client /\ requests[i].op = op /\ requests[i].id = id

C22_Settled(op, id) ==
    \E i \in DOMAIN requests :
        /\ requests[i].client = "web" /\ requests[i].op = op /\ requests[i].id = id
        /\ requests[i].outcome # "sent"

C22_Marked ==
    \A id \in TaskIds :
        /\ id \in togglingTasks <=> C22_Pending("web", "toggleCompleted", id)
        /\ id \in togglingImportance <=> C22_Pending("web", "toggleImportant", id)

\* C22: in the web client a task id is in togglingTasks exactly while a
\* toggleCompleted call of this client for the task has not settled, and in
\* togglingImportance exactly while a toggleImportant call has not; once the
\* call is answered, fulfilled or rejected, the id leaves the set.
C22_MarkedWhilePending ==
    /\ []C22_Marked
    /\ \A id \in TaskIds :
          /\ C22_Settled("toggleCompleted", id) ~> (id \notin togglingTasks)
          /\ C22_Settled("toggleImportant", id) ~> (id \notin togglingImportance)

\* A rejected completion toggle of the web client is waiting for its
\* continuation, next to a pending importance toggle of the other task.
C22_Witness ==
    /\ \E i \in DOMAIN requests :
          requests[i] = [Request("web", "toggleCompleted", "t1") EXCEPT !.outcome = "rejected"]
    /\ "t1" \in togglingTasks
    /\ togglingImportance = {"t2"}

----------------------------------------------------------------------------
(* C23: the mobile client's toggling marker *)

\* C23: in the mobile client, while a toggle call of the detail view has not
\* settled, the marker is set and names a call that has not settled, also
\* when several calls overlap.
C23_PendingIsMarked ==
    (\E i \in DOMAIN requests : requests[i].client = "mobile") =>
        /\ togglingTaskId # None
        /\ togglingType # None
        /\ \E i \in DOMAIN requests :
              /\ requests[i].client = "mobile"
              /\ togglingTaskId = Some(requests[i].id)
              /\ togglingType = Some(TypeOf(requests[i].op))

----------------------------------------------------------------------------
(* The debounce of the web client's search input *)

\* What the user types into the search input.
TypedTexts == SeqsUpTo({"a", " "}, MaxQuery)

\* The timer a run of the debounce effect sets: its callback holds the
\* searchQuery of that render, and left is the time until it may run.
Timer(text) == [value |-> text, left |-> DebounceMs]

\* The same handler with an effect that returns no cleanup.
ChangeSearch_NoCleanup(text) ==
    /\ text # searchInput
    /\ searchInput' = text
    /\ visibleCount' = PAGE_SIZE
    /\ timers' = timers \cup {Timer(text)}
    /\ sinceInput' = 0
    /\ UNCHANGED <<dbVars, mobileVars, statsVars, showCompleted, showIncomplete,
                   durationFilter, importanceFilter, sort, togglingTasks,
                   togglingImportance, togglingTaskId, togglingType, requests,
                   debouncedSearchQuery>>

\* onChange of the search input, and the clear button: the new text makes the
\* effect run again, its cleanup clearing the timer of the run before.
ChangeSearch(text) ==
    /\ text # searchInput
    /\ searchInput' = text
    /\ visibleCount' = PAGE_SIZE
    /\ timers' = {t \in timers : t.value # searchInput} \cup {Timer(text)}
    /\ sinceInput' = 0
    /\ UNCHANGED <<dbVars, mobileVars, statsVars, showCompleted, showIncomplete,
                   durationFilter, importanceFilter, sort, togglingTasks,
                   togglingImportance, togglingTaskId, togglingType, requests,
                   debouncedSearchQuery>>

\* TimerStep ms pass.
Elapse ==
    /\ sinceInput < DebounceMs \/ \E t \in timers : t.left > 0
    /\ sinceInput' = (IF sinceInput + TimerStep < DebounceMs
                      THEN sinceInput + TimerStep ELSE DebounceMs)
    /\ timers' = {[t EXCEPT !.left = IF t.left > TimerStep THEN t.left - TimerStep ELSE 0] :
                    t \in timers}
    /\ UNCHANGED <<dbVars, webVars, mobileVars, statsVars, togglingTasks,
                   togglingImportance, togglingTaskId, togglingType, requests,
                   searchInput, debouncedSearchQuery>>

\* The callback of a timer without its setVisibleCount.
TimerFires_KeepsPages(t) ==
    /\ t \in timers
    /\ t.left = 0
    /\ debouncedSearchQuery' = t.value
    /\ timers' = timers \ {t}
    /\ UNCHANGED <<dbVars, mobileVars, statsVars, webVars, togglingTasks,
                   togglingImportance, togglingTaskId, togglingType, requests,
                   searchInput, sinceInput>>

\* The callback of a timer runs, its delay over.
TimerFires(t) ==
    /\ t \in timers
    /\ t.left = 0
    /\ debouncedSearchQuery' = t.value
    /\ visibleCount' = PAGE_SIZE
    /\ timers' = timers \ {t}
    /\ UNCHANGED <<dbVars, mobileVars, statsVars, showCompleted, showIncomplete,
                   durationFilter, importanceFilter, sort, togglingTasks,
                   togglingImportance, togglingTaskId, togglingType, requests,
                   searchInput, sinceInput>>

Timeout == \E t \in timers : TimerFires(t)

DebounceNext ==
    \/ \E text \in TypedTexts : ChangeSearch(text)
    \/ Elapse
    \/ Timeout

\* Time passes, and the event loop runs a callback that is due.
SpecDebounce ==
    /\ Init
    /\ [][DebounceNext]_vars
    /\ WF_vars(Elapse)
    /\ WF_vars(Timeout)

----------------------------------------------------------------------------
(* C24: the debounced search string *)

\* C24: debouncedSearchQuery changes only when 400 ms have passed since the
\* search input last changed, and then to the present input, never to a text
\* that was replaced; at most one timer is pending; and unless the input
\* changes again and again, debouncedSearchQuery is in the end the input.
C24_Debounce ==
    /\ [][debouncedSearchQuery' # debouncedSearchQuery =>
             /\ sinceInput >= DebounceMs
             /\ debouncedSearchQuery' = searchInput]_vars
    /\ [](Cardinality(timers) <= 1)
    /\ \/ []<><<searchInput' # searchInput>>_vars
       \/ <>[](debouncedSearchQuery = searchInput)

\* The text "a " was sent; the input has changed to "a" since, 200 ms ago,
\* and the timer of "a" is the only one pending.
C24_Witness ==
    /\ debouncedSearchQuery = <<"a", " ">>
    /\ searchInput = <<"a">>
    /\ timers = {[value |-> <<"a">>, left |-> DebounceMs - TimerStep]}
    /\ sinceInput = TimerStep

----------------------------------------------------------------------------
(* The life of the store: seeding, changes, backfill and truncation *)

\* The ids the database gives to the tasks it inserts, in this order.
IdOrder == <<"t1", "t2">>

\* The first n ids no task of the store has.
FreshIds(db, n) ==
    LET free == SelectSeq(IdOrder, LAMBDA id : DbGet(db.tasks, id) = None)
    IN  SubSeq(free, 1, n)

\* addUsers: inserts the users, whatever the table holds.
addUsers(db) ==
    Return("addUsers", [db EXCEPT !.users = db.users \o SeededUsers],
           [count |-> Len(SeededUsers)])

\* seedTasks: flags[i] is the completion flag Math.random gave the i-th task
\* created; the tasks have a title and a description, no owner, no
\* importance and no duration.
seedTasks(db, flags) ==
    LET ids == FreshIds(db, Len(flags))
        created == [i \in DOMAIN flags |->
                       [LegacyTask(ids[i], <<"D", "o", " ", "a">>, flags[i])
                           EXCEPT !.description = Some(<<"d">>),
                                  !.createdAt = Some(1), !.updatedAt = Some(1)]]
    IN  Return("seedTasks", [db EXCEPT !.tasks = db.tasks \o created],
               [created |-> Len(flags), attempts |-> Len(flags)])

\* How many tasks seedTasksForUsers creates for a user, of the 30 it does.
SeedTasksPerUser == 1

\* seedTasksForUsers: flags[i] holds the completion and importance flags
\* Math.random gave the task of the i-th user.
seedTasksForUsers(db, flags) ==
    IF Len(db.users) = 0
    THEN Throw("seedTasksForUsers", db, "No users found. Please run addUsers first.")
    ELSE LET ids == FreshIds(db, Len(db.users))
             created == [i \in DOMAIN db.users |->
                            SeededTask(ids[i], <<"T", "r", "a", "i", "n">>, <<"d">>,
                                       flags[i][1], flags[i][2], 1, 10, db.users[i]._id)]
         IN  Return("seedTasksForUsers", [db EXCEPT !.tasks = db.tasks \o created],
                    [created |-> Len(created), usersProcessed |-> Len(db.users)])

\* A deployment before its first mutation.
LifeInit ==
    /\ tasks = <<>>
    /\ taskHistory = <<>>
    /\ users = <<>>
    /\ now = 2
    /\ result = [op |-> "none", error |-> None, value |-> None]
    /\ calls = NoCalls
    /\ requests = <<>>
    /\ AppMounted(NoParams)
    /\ MobileMounted("all")

\* The model has users for one run of addUsers between two truncations.
AddUsers ==
    /\ users = <<>>
    /\ \E r \in {addUsers(Db)} :
          tasks' = r.tasks /\ taskHistory' = r.taskHistory /\ users' = r.users
          /\ result' = r.result
    /\ UNCHANGED <<now, webVars, mobileVars, clientVars, statsVars, calls>>

\* The model has an id for each task the call creates.
SeedTasks(flags) ==
    /\ Len(tasks) + Len(flags) <= Len(IdOrder)
    /\ \E r \in {seedTasks(Db, flags)} :
          tasks' = r.tasks /\ taskHistory' = r.taskHistory /\ users' = r.users
          /\ result' = r.result
    /\ UNCHANGED <<now, webVars, mobileVars, clientVars, statsVars, calls>>

SeedTasksForUsers(flags) ==
    /\ Len(tasks) + SeedTasksPerUser * Len(users) <= Len(IdOrder)
    /\ \E r \in {seedTasksForUsers(Db, flags)} :
          tasks' = r.tasks /\ taskHistory' = r.taskHistory /\ users' = r.users
          /\ result' = r.result
    /\ UNCHANGED <<now, webVars, mobileVars, clientVars, statsVars, calls>>

\* The draws of a backfill that stamps every item with the start of the year.
YearStartDraws ==
    {draw \in BackfillDraws(now) : \A j \in DOMAIN draw.stamps : draw.stamps[j] = YearStart}

LifeNext ==
    \/ AddUsers
    \/ \E flags \in SeqsUpTo(BOOLEAN, Len(IdOrder)) \ {<<>>} : SeedTasks(flags)
    \/ \E flags \in [1..Len(SeededUsers) -> BOOLEAN \X BOOLEAN] : SeedTasksForUsers(flags)
    \/ \E id \in TaskIds : ToggleCompleted(id)
    \/ \E id \in TaskIds : ToggleImportant(id)
    \/ \E ids \in IdLists : ToggleAll(ids)
    \/ \E ids \in IdLists, value \in BOOLEAN : SetAllCompleted(ids, value)
    \/ BackfillTaskHistoryOf(YearStartDraws)
    \/ TruncateAllTables

SpecLife == LifeInit /\ [][LifeNext]_vars

----------------------------------------------------------------------------
(* C25: no history without its task *)

\* C25: in every state the backend reaches by seeding, toggles, bulk
\* mutations, backfill and truncation, the taskId of every history document
\* is the id of a task of the tasks table.
C25_HistoryHasTask ==
    \A i \in DOMAIN taskHistory : Exists(taskHistory[i].taskId)

\* truncateAllTables has deleted two tasks and their history, which a
\* backfill had written, and nothing is left of either.
C25_Witness ==
    /\ result.op = "truncateAllTables"
    /\ result.value[1].deletedTasks = 2
    /\ result.value[1].deletedHistory >= MinBackfillItems
    /\ tasks = <<>>
    /\ taskHistory = <<>>

----------------------------------------------------------------------------
(* C26: toggleAll, ids without task and ids listed twice *)

\* How often a list names an id, and the history documents of a task among
\* those a step has appended.
C26_Count(ids, id) == Cardinality({j \in DOMAIN ids : ids[j] = id})

C26_AddedOf(id) == SelectSeq(C21_Added, LAMBDA entry : entry.taskId = id)

\* C26: toggleAll(ids) returns true whether or not every id has a task. A
\* task is flipped once for each time the list names it, each flip appending
\* one history document that records the value it set, so a task named twice
\* has its flag as before and two new documents; an id without task leads to
\* no write, and a task the list does not name is left as it was.
C26_ToggleAllSkipsMissing ==
    [][\A ids \in IdLists :
          result'.op = "toggleAll" /\ result'.error = None /\ ToggleAll(ids) =>
             /\ result'.value = Some(TRUE)
             /\ Len(tasks') = Len(tasks)
             /\ SubSeq(taskHistory', 1, Len(taskHistory)) = taskHistory
             /\ \A j \in DOMAIN C21_Added : Exists(C21_Added[j].taskId)
             /\ \A i \in DOMAIN tasks :
                   \A count \in {C26_Count(ids, tasks[i]._id)},
                      added \in {C26_AddedOf(tasks[i]._id)} :
                         /\ tasks'[i]._id = tasks[i]._id
                         /\ tasks'[i].isCompleted =
                               (IF count % 2 = 1 THEN ~tasks[i].isCompleted
                                ELSE tasks[i].isCompleted)
                         /\ Len(added) = count
                         /\ \A k \in DOMAIN added :
                               added[k].changedTo =
                                   (IF k % 2 = 1 THEN ~tasks[i].isCompleted
                                    ELSE tasks[i].isCompleted)
                         /\ count = 0 => tasks'[i] = tasks[i]]_vars

\* toggleAll has run on a list naming the only task twice, among ids without
\* task or not: the task is as seeded, its two documents say otherwise.
C26_Witness ==
    /\ result.op = "toggleAll"
    /\ result.error = None
    /\ Len(tasks) = 1
    /\ tasks[1].isCompleted
    /\ Len(taskHistory) = 2
    /\ \A k \in 1..2 : taskHistory[k].taskId = "t1" /\ taskHistory[k].changedAt = now
    /\ ~taskHistory[1].changedTo
    /\ taskHistory[2].changedTo

----------------------------------------------------------------------------
(* C27: the flags follow the history *)

\* The kind of a history document: one without changeType records a
\* completion.
C27_Kind(entry) ==
    IF entry.changeType = Some("importance") THEN "importance" ELSE "completion"

\* The history documents of one kind of a task, as appended.
C27_Of(id, kind) ==
    SelectSeq(taskHistory, LAMBDA entry : entry.taskId = id /\ C27_Kind(entry) = kind)

C27_Alternates(entries) ==
    \A k \in 1..(Len(entries) - 1) : entries[k].changedTo # entries[k + 1].changedTo

----------------------------------------------------------------------------
(* The latest changes: getLatestChanges and its cursor *)

\* The page size of getLatestChanges when the caller gives none.
DefaultLimit == 20

\* The number of tasks whose history getLatestChanges reads.
maxTasksToCheck == 200

RECURSIVE Flat(_)
Flat(lists) == IF lists = <<>> THEN <<>> ELSE Head(lists) \o Flat(Tail(lists))

\* The arguments of getLatestChanges, each of them optional.
ChangesArgs(limit, cursor, userIds) ==
    [limit |-> limit, cursor |-> cursor, userIds |-> userIds,
     showCompleted |-> None, showIncomplete |-> None,
     showImportant |-> None, showNotImportant |-> None]

\* The filter callback of getLatestChanges on the change type.
changeTypeMatch(entry, args) ==
    LET isCompletionChange == entry.changeType = None \/ entry.changeType = Some("completion")
        isImportanceChange == entry.changeType = Some("importance")
    IN  \/ isCompletionChange /\ Truthy(args.showCompleted) /\ entry.changedTo
        \/ isCompletionChange /\ Truthy(args.showIncomplete) /\ ~entry.changedTo
        \/ isImportanceChange /\ Truthy(args.showImportant) /\ entry.changedTo
        \/ isImportanceChange /\ Truthy(args.showNotImportant) /\ ~entry.changedTo

\* A history document with the task and the user the page shows with it.
ChangeWithTask(db, entry) ==
    LET task == DbGet(db.tasks, entry.taskId)[1]
        user == IF task.userId = None THEN None ELSE DbGet(db.users, task.userId[1])
    IN  [taskId |-> entry.taskId, changeType |-> entry.changeType,
         changedTo |-> entry.changedTo, changedAt |-> entry.changedAt,
         task |-> [_id |-> task._id, text |-> task.text],
         user |-> IF user = None THEN None
                  ELSE Some([_id |-> user[1]._id, name |-> user[1].name,
                             image |-> user[1].image])]

getLatestChanges(db, args) ==
    LET limit == OrElse(args.limit, DefaultLimit)
        cursor == OrElse(args.cursor, db.now)
        byUser ==
            IF args.userIds # None /\ Len(args.userIds[1]) > 0
            THEN SelectSeq(db.tasks, LAMBDA task :
                     /\ task.userId # None
                     /\ \E k \in DOMAIN args.userIds[1] : args.userIds[1][k] = task.userId[1])
            ELSE db.tasks
        sorted == arraySort(byUser,
                      [i \in DOMAIN byUser |-> [j \in DOMAIN byUser |->
                          OrElse(byUser[j].updatedAt, 0) - OrElse(byUser[i].updatedAt, 0)]])
        recentTasks == slice(sorted, maxTasksToCheck)
        allHistory ==
            Flat([k \in DOMAIN recentTasks |->
                     SelectSeq(HistoryByTask(db.taskHistory, recentTasks[k]._id),
                               LAMBDA entry : entry.changedAt < cursor)])
        hasAnyFilter == \/ args.showCompleted # None \/ args.showIncomplete # None
                        \/ args.showImportant # None \/ args.showNotImportant # None
        filteredHistory ==
            IF hasAnyFilter
            THEN SelectSeq(allHistory, LAMBDA entry : changeTypeMatch(entry, args))
            ELSE allHistory
        ordered == arraySort(filteredHistory,
                       [i \in DOMAIN filteredHistory |-> [j \in DOMAIN filteredHistory |->
                           filteredHistory[j].changedAt - filteredHistory[i].changedAt]])
        pageHistory == slice(ordered, limit)
        nextCursor == IF Len(pageHistory) = limit /\ Len(pageHistory) > 0
                      THEN Some(pageHistory[Len(pageHistory)].changedAt)
                      ELSE None
    IN  Return("getLatestChanges", db,
               [changes |-> [k \in DOMAIN pageHistory |-> ChangeWithTask(db, pageHistory[k])],
                nextCursor |-> nextCursor,
                hasMore |-> nextCursor # None])

\* The user filters and page sizes a client calls getLatestChanges with.
ChangesUserFilters == {None, Some(<<"u1">>)}

ChangesLimits == 1..MaxHistory

\* A call of the query: without cursor, or with the cursor of the page before.
GetLatestChanges(limit, cursor, userIds) ==
    /\ cursor # None =>
          /\ result.op = "getLatestChanges"
          /\ result.value[1].nextCursor = cursor
    /\ result' = getLatestChanges(Db, ChangesArgs(Some(limit), cursor, userIds)).result
    /\ UNCHANGED <<tasks, taskHistory, users, now, calls, webVars, mobileVars, clientVars,
                   statsVars>>

ChangesNext ==
    \/ Tick
    \/ \E id \in TaskIds : ToggleCompleted(id)
    \/ \E id \in TaskIds : ToggleImportant(id)
    \/ \E ids \in IdLists : ToggleAll(ids)
    \/ \E limit \in ChangesLimits, userIds \in ChangesUserFilters,
          cursor \in {None} \cup {Some(t) : t \in 1..MaxTime} :
             GetLatestChanges(limit, cursor, userIds)

SpecChanges == Init /\ [][ChangesNext]_vars

----------------------------------------------------------------------------
(* C28: every change once, page after page *)

\* The pages a client gets that calls without cursor and then with each
\* nextCursor until hasMore is false, or until it has made fuel calls more.
RECURSIVE C28_Pages(_, _, _, _, _)
C28_Pages(db, limit, cursor, userIds, fuel) ==
    LET page == getLatestChanges(db, ChangesArgs(Some(limit), cursor, userIds)).result.value[1]
    IN  IF ~page.hasMore THEN [changes |-> page.changes, ended |-> TRUE]
        ELSE IF fuel = 0 THEN [changes |-> page.changes, ended |-> FALSE]
        ELSE LET rest == C28_Pages(db, limit, page.nextCursor, userIds, fuel - 1)
             IN  [changes |-> page.changes \o rest.changes, ended |-> rest.ended]

\* The history documents a user filter lets through: of all tasks, or of the
\* tasks of the users named.
C28_Passes(entry, userIds) ==
    \/ userIds = None
    \/ \E i \in DOMAIN tasks :
          /\ tasks[i]._id = entry.taskId
          /\ tasks[i].userId # None
          /\ \E k \in DOMAIN userIds[1] : userIds[1][k] = tasks[i].userId[1]

C28_Document(change) ==
    [taskId |-> change.taskId, changeType |-> change.changeType,
     changedTo |-> change.changedTo, changedAt |-> change.changedAt]

\* C28: with no change-type filter, the pages of getLatestChanges taken until
\* hasMore is false are finitely many and hold each history document earlier
\* than the first call (of the tasks the user filter lets through) exactly
\* once, the later before the earlier, documents of one instant included.
C28_PagesHoldEveryChange ==
    \A limit \in ChangesLimits, userIds \in ChangesUserFilters :
        \A pages \in {C28_Pages(Db, limit, None, userIds, Len(taskHistory) + 1)} :
            /\ pages.ended
            /\ \A k \in 1..(Len(pages.changes) - 1) :
                  pages.changes[k].changedAt >= pages.changes[k + 1].changedAt
            /\ \A i \in DOMAIN taskHistory :
                  (taskHistory[i].changedAt < now /\ C28_Passes(taskHistory[i], userIds)) =>
                     Cardinality({k \in DOMAIN pages.changes :
                                     C28_Document(pages.changes[k]) = taskHistory[i]})
                       = Cardinality({j \in DOMAIN taskHistory :
                                         taskHistory[j] = taskHistory[i]})
            /\ \A k \in DOMAIN pages.changes :
                  \E i \in DOMAIN taskHistory :
                     /\ taskHistory[i] = C28_Document(pages.changes[k])
                     /\ taskHistory[i].changedAt < now
                     /\ C28_Passes(taskHistory[i], userIds)

----------------------------------------------------------------------------
(* The pages of the two lists under every control that resets them *)

\* A store of MaxPages web pages and one task more; the mobile screen is the
\* tab of the important tasks, which has the duration button.
VisibleInit ==
    /\ tasks = [i \in 1..(MaxPages * PAGE_SIZE + 1) |-> PagedTask(i)]
    /\ taskHistory = <<>>
    /\ users = SeededUsers
    /\ now = 5
    /\ result = [op |-> "none", error |-> None, value |-> None]
    /\ calls = NoCalls
    /\ requests = <<>>
    /\ AppMounted(NoParams)
    /\ MobileMounted("important")

VisibleNext ==
    \/ handleLoadMore
    \/ toggleShowCompleted
    \/ toggleShowIncomplete
    \/ ClickDuration("quick")
    \/ ClickImportant
    \/ \E value \in {"latest", "newest"} : SelectSort(value)
    \/ ClickUser(users[1])
    \/ \E text \in {<<>>, <<"a">>} : ChangeSearch(text)
    \/ Elapse
    \/ Timeout
    \/ mobileHandleLoadMore
    \/ cycleDurationFilter
    \/ \E value \in {"latest", "newest"} : MobileSelectSort(value)

SpecVisible == VisibleInit /\ [][VisibleNext]_vars

----------------------------------------------------------------------------
(* C29: visibleCount is a number of pages *)

C29_Pages(count, size) == count > 0 /\ count % size = 0

\* C29: in both clients visibleCount is a positive multiple of the page
\* size. On web every change of a status toggle, of the duration or the
\* importance filter, of the sort key, of the search text or of the selected
\* users leaves visibleCount at one page, and so does the callback of the
\* debounce timer; on mobile every change of the sort key or of the duration
\* filter leaves visibleCount at one page.
C29_VisibleCountInPages ==
    /\ [](/\ C29_Pages(visibleCount, PAGE_SIZE)
          /\ C29_Pages(mobileVisibleCount, MOBILE_PAGE_SIZE))
    /\ [][/\ <<showCompleted, showIncomplete, durationFilter, importanceFilter, sort,
               searchInput, selectedUsers>>'
                # <<showCompleted, showIncomplete, durationFilter, importanceFilter, sort,
                    searchInput, selectedUsers>>
               => visibleCount' = PAGE_SIZE
          /\ timers' \subseteq timers /\ timers' # timers
               => visibleCount' = PAGE_SIZE
          /\ <<mobileSort, mobileDurationFilter>>' # <<mobileSort, mobileDurationFilter>>
               => mobileVisibleCount' = MOBILE_PAGE_SIZE]_vars

\* The web list shows two pages and the timer of the text typed is due.
C29_Witness ==
    /\ visibleCount = 2 * PAGE_SIZE
    /\ searchInput = <<"a">>
    /\ timers = {[value |-> <<"a">>, left |-> 0]}

----------------------------------------------------------------------------
(* C30: the mobile tabs and the web selections *)

\* The web selection that corresponds to a mobile tab.
C30_Selection(filter) ==
    [showCompleted |-> filter # "incomplete",
     showIncomplete |-> filter # "completed",
     importanceFilter |-> IF filter = "important" THEN "important" ELSE "all"]

\* C30: for every enriched list, sort key and duration filter, the list of
\* the mobile tab all, completed, incomplete or important is, item by item,
\* the web list for both status toggles on, completed only, incomplete only,
\* or both toggles on with the importance filter "important".
C30_TabsMatchSelections ==
    \A list \in {allTasks} :
        \A filter \in FilterTypes, byDuration \in DurationFilters, sortKey \in SortTypes :
            \A selection \in {C30_Selection(filter)} :
                mobileSortedAndFilteredTasks(list, filter, byDuration, sortKey)
                  = sortedAndFilteredTasks(list, selection.showCompleted,
                                           selection.showIncomplete, byDuration,
                                           selection.importanceFilter, sortKey)

\* The important tab with the duration filter "long" and the web client with
\* the same selection, on three tasks of which one has no importance flag, one
\* is important and quick, one is important and long: both show the last.
C30_Witness ==
    /\ mobileFilter = "important"
    /\ mobileDurationFilter = "long"
    /\ showCompleted /\ showIncomplete
    /\ importanceFilter = "important"
    /\ durationFilter = "long"
    /\ Len(tasks) = 3
    /\ tasks[1].isImportant = None
    /\ tasks[2].isImportant = Some(TRUE) /\ tasks[2].duration = Some(15)
    /\ tasks[3].isImportant = Some(TRUE) /\ tasks[3].duration = Some(16)
    /\ Len(MobileList) = 1
    /\ WebList = MobileList

====
